---- MODULE Spec2Model ----
(***************************************************************************)
(* krane push: the concurrent mirroring pipeline of cmd/push.go            *)
(* (processImagesConcurrently, worker, processImageJob) together with the  *)
(* ECR client operations it calls (pkg/ecr/client.go) and transfer.Mirror. *)
(*                                                                         *)
(* Go strings are sequences of one-character strings; Go indices are       *)
(* 0-based and kept so (s[a:b] is Slice(s, a, b)).                         *)
(***************************************************************************)
EXTENDS Integers, Sequences, FiniteSets, TLC

(***************************************************************************)
(* Bounds of the model.                                                    *)
(***************************************************************************)
\* longest input image list handed to processImagesConcurrently
MaxImages == 2
\* largest value of --max-concurrent that is explored
MaxWorkers == 2

(***************************************************************************)
(* strings package.  A local value that is used more than once is bound    *)
(* through a singleton set ({body : x \in {e}}), which makes TLC evaluate  *)
(* it once; Only takes the value out of the set.                           *)
(***************************************************************************)
Only(S) == CHOOSE r \in S : TRUE

Slice(s, a, b) == SubSeq(s, a + 1, b)

HasPrefixAt(s, sub, i) ==
    /\ i + Len(sub) <= Len(s)
    /\ \A k \in 1..Len(sub) : s[i + k] = sub[k]

\* strings.Index: 0-based position of the first occurrence of sub, or -1
Index(s, sub) ==
    Only({IF hits = {} THEN -1 ELSE CHOOSE i \in hits : \A k \in hits : i <= k :
            hits \in {{i \in 0..Len(s) : HasPrefixAt(s, sub, i)}}})

\* strings.LastIndex: 0-based position of the last occurrence of sub, or -1
LastIndex(s, sub) ==
    Only({IF hits = {} THEN -1 ELSE CHOOSE i \in hits : \A k \in hits : i >= k :
            hits \in {{i \in 0..Len(s) : HasPrefixAt(s, sub, i)}}})

Contains(s, sub) == Index(s, sub) # -1

\* strings.Split(s, sep) for a one-character separator
RECURSIVE Split(_, _)
Split(s, sep) ==
    Only({IF i = -1 THEN <<s>>
          ELSE <<Slice(s, 0, i)>> \o
               Only({Split(rest, sep) : rest \in {Slice(s, i + 1, Len(s))}}) :
            i \in {Index(s, sep)}})

\* strings.SplitN(s, sep, 2)
SplitN2(s, sep) ==
    Only({IF i = -1 THEN <<s>> ELSE <<Slice(s, 0, i), Slice(s, i + 1, Len(s))>> :
            i \in {Index(s, sep)}})

\* strings.Join
RECURSIVE Join(_, _)
Join(parts, sep) ==
    IF Len(parts) = 0 THEN <<>>
    ELSE IF Len(parts) = 1 THEN parts[1]
    ELSE parts[1] \o sep \o Only({Join(rest, sep) : rest \in {Tail(parts)}})

UpperLetters ==
    <<"A","B","C","D","E","F","G","H","I","J","K","L","M",
      "N","O","P","Q","R","S","T","U","V","W","X","Y","Z">>
LowerLetters ==
    <<"a","b","c","d","e","f","g","h","i","j","k","l","m",
      "n","o","p","q","r","s","t","u","v","w","x","y","z">>
Digits == {"0","1","2","3","4","5","6","7","8","9"}

ToLowerChar(c) ==
    IF \E u \in 1..Len(UpperLetters) : UpperLetters[u] = c
    THEN LowerLetters[CHOOSE u \in 1..Len(UpperLetters) : UpperLetters[u] = c]
    ELSE c

\* strings.ToLower
ToLower(s) == [k \in 1..Len(s) |-> ToLowerChar(s[k])] \o <<>>

\* strings.ReplaceAll(s, old, new) for one-character old and new
ReplaceAll(s, old, new) ==
    [k \in 1..Len(s) |-> IF s[k] = old[1] THEN new[1] ELSE s[k]] \o <<>>

(***************************************************************************)
(* pkg/ecr: naming                                                         *)
(***************************************************************************)
IsAlnum(c) == c \in Digits \/ \E l \in 1..Len(LowerLetters) : LowerLetters[l] = c
IsSeparator(c) == c \in {".", "_", "-"}

\* one segment of the grammar: [a-z0-9]+(?:[._-][a-z0-9]+)*
SegmentMatches(seg) ==
    /\ Len(seg) > 0
    /\ \A k \in 1..Len(seg) : IsAlnum(seg[k]) \/ IsSeparator(seg[k])
    /\ IsAlnum(seg[1])
    /\ IsAlnum(seg[Len(seg)])
    /\ \A k \in 1..(Len(seg) - 1) : ~(IsSeparator(seg[k]) /\ IsSeparator(seg[k + 1]))

\* validateECRRepositoryName: TRUE iff the name matches (err == nil)
\* ^(?:[a-z0-9]+(?:[._-][a-z0-9]+)*/)*[a-z0-9]+(?:[._-][a-z0-9]+)*$
validateECRRepositoryName(name) ==
    \A segs \in {Split(name, <<"/">>)} :
        \A k \in 1..Len(segs) : SegmentMatches(segs[k])

Str_dkr == <<".","d","k","r",".","e","c","r",".">>
Str_amazonaws == <<".","a","m","a","z","o","n","a","w","s",".","c","o","m">>
Str_sha256 == <<"@","s","h","a","2","5","6",":">>
Str_sha == <<"s","h","a","-">>
Str_latest == <<"l","a","t","e","s","t">>
Str_localhost == <<"l","o","c","a","l","h","o","s","t">>

\* Client.GetRegistryURL
GetRegistryURL(c) == c.accountID \o Str_dkr \o c.region \o Str_amazonaws

\* ConvertImageName, "Extract digest if present": [image, digest]
ExtractDigest(originalImage) ==
    Only({IF at # -1
          THEN [image |-> Slice(originalImage, 0, at),
                digest |-> Slice(originalImage, at + Len(Str_sha256), Len(originalImage))]
          ELSE [image |-> originalImage, digest |-> <<>>] :
            at \in {Index(originalImage, Str_sha256)}})

\* mutant: a first segment "localhost" is not taken for a registry
RepositoryPartsNoLocalhost(image) ==
    Only({Only({IF Len(sliced) = 0 THEN <<image>> ELSE sliced :
                  sliced \in {Slice(parts,
                                    IF /\ Len(parts) > 1
                                       /\ \/ Contains(parts[1], <<".">>)
                                          \/ Contains(parts[1], <<":">>)
                                    THEN 1 ELSE 0,
                                    Len(parts))}}) :
            parts \in {Split(image, <<"/">>)}})

\* ConvertImageName, "Repository path (excluding registry)": repoParts
RepositoryParts(image) ==
    Only({Only({IF Len(sliced) = 0 THEN <<image>> ELSE sliced :
                  sliced \in {Slice(parts,
                                    IF /\ Len(parts) > 1
                                       /\ \/ Contains(parts[1], <<".">>)
                                          \/ Contains(parts[1], <<":">>)
                                          \/ parts[1] = Str_localhost
                                    THEN 1 ELSE 0,
                                    Len(parts))}}) :
            parts \in {Split(image, <<"/">>)}})

\* ConvertImageName, "Extract tag from last part": [name, tag]
NameAndTag(last) ==
    Only({IF idx # -1
          THEN [name |-> Slice(last, 0, idx), tag |-> Slice(last, idx + 1, Len(last))]
          ELSE [name |-> last, tag |-> <<>>] :
            idx \in {LastIndex(last, <<":">>)}})

\* mutant: a captured digest is preferred to an explicit tag
DetermineTagDigestFirst(tag, digest) ==
    IF digest # <<>>
    THEN Str_sha \o (IF Len(digest) > 12 THEN Slice(digest, 0, 12) ELSE digest)
    ELSE IF tag = <<>> THEN Str_latest ELSE tag

\* ConvertImageName, "Determine tag"
DetermineTag(tag, digest) ==
    IF tag = <<>>
    THEN IF digest # <<>>
         THEN Str_sha \o (IF Len(digest) > 12 THEN Slice(digest, 0, 12) ELSE digest)
         ELSE Str_latest
    ELSE tag

\* mutant: the path is not lowercased
NormalizePathKeepsCase(repoPath) ==
    Only({ReplaceAll(colons, <<"@">>, <<"-">>) :
            colons \in {ReplaceAll(repoPath, <<":">>, <<"-">>)}})

\* ConvertImageName, "Normalize repository name for ECR"
NormalizePath(repoPath) ==
    Only({Only({ReplaceAll(colons, <<"@">>, <<"-">>) :
                  colons \in {ReplaceAll(lower, <<":">>, <<"-">>)}}) :
            lower \in {ToLower(repoPath)}})

\* ConvertImageName, from the validation on: [target, repo, err]
Validated(c, fullRepoName, tag) ==
    IF ~validateECRRepositoryName(fullRepoName)
    THEN [target |-> <<>>, repo |-> <<>>, err |-> TRUE]
    ELSE [target |-> GetRegistryURL(c) \o <<"/">> \o fullRepoName \o <<":">> \o tag,
          repo |-> fullRepoName,
          err |-> FALSE]

\* Client.ConvertImageName: [target, repo, err]
ConvertImageName(c, originalImage, prefix) ==
    Only({Only({Only({Only({Validated(c, fullRepoName, DetermineTag(nt.tag, d.digest)) :
                              fullRepoName \in
                                {prefix \o <<"/">> \o
                                 NormalizePath(Join([repoParts EXCEPT ![Len(repoParts)] = nt.name],
                                                    <<"/">>))}}) :
                        nt \in {NameAndTag(repoParts[Len(repoParts)])}}) :
                  repoParts \in {RepositoryParts(d.image)}}) :
            d \in {ExtractDigest(originalImage)}})

(***************************************************************************)
(* pkg/transfer                                                            *)
(***************************************************************************)
\* validatePlatform: TRUE iff the platform is accepted (err == nil)
validatePlatform(platform) ==
    IF Contains(platform, <<",">>) THEN FALSE
    ELSE \A parts \in {SplitN2(platform, <<"/">>)} :
            ~(Len(parts) # 2 \/ parts[1] = <<>> \/ parts[2] = <<>>)

\* the <<repository, tag>> the registry stores for a destination reference
\* host/repository:tag
RefOf(dstRef) ==
    Only({Only({<<Slice(rest, 0, colon), Slice(rest, colon + 1, Len(rest))>> :
                  colon \in {LastIndex(rest, <<":">>)}}) :
            rest \in {Slice(dstRef, Index(dstRef, <<"/">>) + 1, Len(dstRef))}})

(***************************************************************************)
(* Inputs                                                                  *)
(***************************************************************************)
Img_nginx126 == <<"n","g","i","n","x",":","1",".","2","6">>
Img_local == Str_localhost \o <<"/","n","g","i","n","x",":","1",".","2","5">>
Img_nginx125 == <<"n","g","i","n","x",":","1",".","2","5">>
Img_busybox ==
    <<"d","o","c","k","e","r",".","i","o","/","l","i","b","r","a","r","y","/",
      "b","u","s","y","b","o","x">> \o Str_sha256 \o [k \in 1..64 |-> "a"]
Img_bad == <<"b","a","d","/",".",".","/","n","a","m","e">>
Img_redis == <<"R","e","d","i","s">>

SampleImages == <<Img_nginx125, Img_local, Img_nginx126, Img_bad, Img_busybox, Img_redis>>

\* the image lists explored: the first n <= MaxImages samples from a start
ListStarts == {1, 3}
ImageLists ==
    {SubSeq(SampleImages, a, a + n - 1) : a \in ListStarts, n \in 0..MaxImages}

Str_krane == <<"k","r","a","n","e">>
ecrClient == [accountID |-> <<"1">>, region |-> <<"e","u">>]

VARIABLES
    opts,             \* PushOptions
    images,           \* the images handed to processImagesConcurrently
    ctx,              \* the context: "background", "cancellable" or "done"
    main,             \* processImagesConcurrently: "build", "collect", "done"
    jobs,             \* the built []ImageJob
    jobChan, jobChanClosed,
    resultChan, resultChanClosed,
    producer,         \* the "Send jobs" goroutine: [pc, i]
    workers,          \* workerID -> [pc, job, err, skipped, late]; late: the job
                      \* was received after ctx was cancelled
    closer,           \* the "Collect results" goroutine: "idle", "wait", "done"
    successCount, errorCount, skippedCount,
    repos, tags,      \* the destination registry: repositories, <<repository, tag>>
    plan,             \* the behaviour of the remote services in this run
    log,              \* per job: the calls made for it and their answers
    inflight,         \* <<workerID, job>>: processImageJob is executing
    received,         \* per job: the results the aggregator consumed
    ret,              \* what runPush returned: "running" until it returns
    stdout,           \* the lines printed by the dry-run loop
    setup,            \* how runPush's setup steps went: "pending", "ok" or
                      \* the step that failed
    pods,             \* the pods of the cluster
    listed            \* the images ListPodImagesFiltered returned

vars == <<pods, listed, ret, stdout, setup, opts, images, ctx, main, jobs, jobChan, jobChanClosed, resultChan,
          resultChanClosed, producer, workers, closer, successCount, errorCount,
          skippedCount, repos, tags, plan, log, inflight, received>>

(***************************************************************************)
(* cmd/push.go: job building                                               *)
(***************************************************************************)
\* mutant: an image whose translation failed still becomes a job
RECURSIVE BuildJobsFromKeepsFailed(_, _, _)
BuildJobsFromKeepsFailed(imgs, i, prefix) ==
    IF i > Len(imgs) THEN <<>>
    ELSE Only({<<[Index |-> i,
                  Total |-> Len(imgs),
                  Image |-> imgs[i],
                  TargetImage |-> conv.target,
                  RepoName |-> conv.repo]>>
               \o BuildJobsFromKeepsFailed(imgs, i + 1, prefix) :
                 conv \in {ConvertImageName(ecrClient, imgs[i], prefix)}})

\* the "Prepare jobs" loop of processImagesConcurrently, over images[i..]
RECURSIVE BuildJobsFrom(_, _, _)
BuildJobsFrom(imgs, i, prefix) ==
    IF i > Len(imgs) THEN <<>>
    ELSE Only({(IF conv.err THEN <<>>
                ELSE <<[Index |-> i,
                        Total |-> Len(imgs),
                        Image |-> imgs[i],
                        TargetImage |-> conv.target,
                        RepoName |-> conv.repo]>>)
               \o BuildJobsFrom(imgs, i + 1, prefix) :
                 conv \in {ConvertImageName(ecrClient, imgs[i], prefix)}})

BuildJobs(imgs, prefix) == BuildJobsFrom(imgs, 1, prefix)

\* make(chan ImageJob, len(jobs)), make(chan JobResult, len(jobs))
JobChanCap == Len(jobs)
\* mutant: the result channel has room for one result less
ResultChanCapOneLess == Len(jobs) - 1
ResultChanCap == Len(jobs)

\* mutant: the start loop runs once too often (i <= opts.MaxConcurrent)
WorkerIDsOneMore(maxConcurrent) == 0..maxConcurrent

\* the worker goroutines started by "for i := 0; i < opts.MaxConcurrent; i++"
WorkerIDs(maxConcurrent) == 0..(maxConcurrent - 1)

(***************************************************************************)
(* pkg/ecr: remote calls.  A call is one step, taken when its answer       *)
(* arrives.  The registry answers from its state; the plan of the run      *)
(* names the step at which the services fail each job; a call whose        *)
(* context is cancelled before the answer arrives returns the context's    *)
(* error.                                                                  *)
(***************************************************************************)
\* plan 0: no service fault; plan r > 0: consecutive jobs fail at
\* consecutive steps of this cycle, starting at its r-th entry
FaultCycle == <<"create", "tag", "mirror", "none">>
FaultPlans == 0..Len(FaultCycle)
\* the plans explored under a context that can be cancelled
CancelledPlans == {0, 1}

\* ctx.Done() is closed
ctxDone == ctx = "done"

FaultOf(j) ==
    IF plan = 0 THEN "none"
    ELSE FaultCycle[((j + plan - 2) % Len(FaultCycle)) + 1]

\* the answer of ecr.CreateRepository for a job
CreateRepositoryResponse(j) ==
    IF ctxDone \/ FaultOf(j) = "create" THEN "error"
    ELSE IF jobs[j].RepoName \in repos THEN "RepositoryAlreadyExistsException"
    ELSE "created"

\* mutant: "already exists" is not recognised and is returned as an error
CreateRepositoryStrict(resp) ==
    IF resp = "created" THEN "nil" ELSE "create"

\* Client.CreateRepository: the error returned for a response
CreateRepository(resp) ==
    IF resp = "created" THEN "nil"
    ELSE IF resp = "RepositoryAlreadyExistsException" THEN "nil"
    ELSE "create"

\* the answer of ecr.DescribeImages for a job's repository and tag
DescribeImagesResponse(j, tag) ==
    IF ctxDone \/ FaultOf(j) = "tag" THEN "error"
    ELSE IF jobs[j].RepoName \notin repos THEN "RepositoryNotFoundException"
    ELSE IF <<jobs[j].RepoName, tag>> \notin tags THEN "ImageNotFoundException"
    ELSE "found"

\* mutant: an image-not-found answer is returned as an error
ImageTagExistsNotFoundIsError(resp) ==
    IF resp = "RepositoryNotFoundException" THEN [exists |-> FALSE, err |-> "nil"]
    ELSE IF resp \in {"ImageNotFoundException", "error"} THEN [exists |-> FALSE, err |-> "tag"]
    ELSE [exists |-> TRUE, err |-> "nil"]

\* Client.ImageTagExists: [exists, err] for a response
ImageTagExists(resp) ==
    IF resp = "RepositoryNotFoundException" THEN [exists |-> FALSE, err |-> "nil"]
    ELSE IF resp = "ImageNotFoundException" THEN [exists |-> FALSE, err |-> "nil"]
    ELSE IF resp = "error" THEN [exists |-> FALSE, err |-> "tag"]
    ELSE [exists |-> TRUE, err |-> "nil"]

\* the answer of crane.Copy for a job
CopyResponse(j) ==
    IF ctxDone \/ FaultOf(j) = "mirror" THEN "error" ELSE "copied"

\* transfer.Mirror, before the copy: TRUE iff the platform is rejected
MirrorRejects(platform) == platform # <<>> /\ ~validatePlatform(platform)

(***************************************************************************)
(* cmd/push.go: processImageJob, one step per remote call                  *)
(***************************************************************************)
\* the tag processImageJob extracts from the target (after the last ':')
TagOf(targetImage) ==
    Only({IF idx # -1 THEN Slice(targetImage, idx + 1, Len(targetImage)) ELSE <<>> :
            idx \in {LastIndex(targetImage, <<":">>)}})

\* mutant: the skip-existing option is not consulted, the job goes on to mirror
AfterCreateNoTagCheck(err, skipExisting, tag) ==
    IF err # "nil" THEN [pc |-> "send", err |-> err, skipped |-> FALSE]
    ELSE [pc |-> "mirror", err |-> "nil", skipped |-> FALSE]

\* after CreateRepository returned err: the next step and the result so far
AfterCreate(err, skipExisting, tag) ==
    IF err # "nil" THEN [pc |-> "send", err |-> err, skipped |-> FALSE]
    ELSE IF skipExisting /\ tag # <<>> THEN [pc |-> "tag", err |-> "nil", skipped |-> FALSE]
    ELSE [pc |-> "mirror", err |-> "nil", skipped |-> FALSE]

\* mutant: the answer "exists" is ignored and the job is mirrored anyway
AfterTagCheckNoSkip(r) ==
    IF r.err # "nil" THEN [pc |-> "send", err |-> r.err, skipped |-> FALSE]
    ELSE [pc |-> "mirror", err |-> "nil", skipped |-> FALSE]

\* mutant: an error of the existence query is ignored and the job is mirrored
AfterTagCheckIgnoresError(r) ==
    IF r.err = "nil" /\ r.exists THEN [pc |-> "send", err |-> "nil", skipped |-> TRUE]
    ELSE [pc |-> "mirror", err |-> "nil", skipped |-> FALSE]

\* after ImageTagExists returned
AfterTagCheck(r) ==
    IF r.err # "nil" THEN [pc |-> "send", err |-> r.err, skipped |-> FALSE]
    ELSE IF r.exists THEN [pc |-> "send", err |-> "nil", skipped |-> TRUE]
    ELSE [pc |-> "mirror", err |-> "nil", skipped |-> FALSE]

\* mutant: a job whose mirror failed is executed again
AfterMirrorRetries(err) ==
    IF err # "nil" THEN [pc |-> "create", err |-> "nil", skipped |-> FALSE]
    ELSE [pc |-> "send", err |-> err, skipped |-> FALSE]

\* after transfer.Mirror returned
AfterMirror(err) == [pc |-> "send", err |-> err, skipped |-> FALSE]

(***************************************************************************)
(* Initial state: runPush has set up the client and the image list and     *)
(* calls processImagesConcurrently.                                        *)
(***************************************************************************)
Init ==
    /\ opts \in [MaxConcurrent : -1..MaxWorkers,
                 SkipExisting : BOOLEAN,
                 Platform : {<<>>},
                 RepositoryPrefix : {Str_krane},
                 DryRun : {FALSE}]
    /\ images \in ImageLists
    /\ ctx \in {"background", "cancellable"}
    /\ ctx = "cancellable" => plan \in CancelledPlans
    /\ main = "build"
    /\ jobs = <<>>
    /\ jobChan = <<>> /\ jobChanClosed = FALSE
    /\ resultChan = <<>> /\ resultChanClosed = FALSE
    /\ producer = [pc |-> "idle", i |-> 1]
    /\ workers = <<>>
    /\ closer = "idle"
    /\ successCount = 0 /\ errorCount = 0 /\ skippedCount = 0
    /\ repos = {} /\ tags = {}
    /\ plan \in FaultPlans
    /\ log = <<>>
    /\ inflight = {}
    /\ received = <<>>
    /\ ret = "running"
    /\ stdout = <<>>
    /\ setup = "ok"
    /\ pods = <<>>
    /\ listed = <<>>

(***************************************************************************)
(* processImagesConcurrently: build the jobs, make the channels, start     *)
(* the goroutines                                                          *)
(***************************************************************************)
Start ==
    /\ main = "build"
    /\ \E built \in {BuildJobs(images, opts.RepositoryPrefix)} :
           /\ jobs' = built
           /\ producer' = [pc |-> IF Len(built) = 0 THEN "close" ELSE "send", i |-> 1]
           /\ log' = [j \in 1..Len(built) |-> <<>>]
           /\ received' = [j \in 1..Len(built) |-> <<>>]
    /\ workers' = [w \in WorkerIDs(opts.MaxConcurrent) |->
                      [pc |-> "recv", job |-> 0, err |-> "nil", skipped |-> FALSE, late |-> FALSE]]
    /\ closer' = "wait"
    /\ main' = "collect"
    /\ UNCHANGED <<pods, listed, ret, stdout, setup, opts, images, ctx, jobChan, jobChanClosed, resultChan,
                   resultChanClosed, successCount, errorCount, skippedCount,
                   repos, tags, plan, inflight>>

\* processImagesConcurrently has returned and every goroutine has ended
Terminated ==
    /\ main = "done"
    /\ producer.pc = "done"
    /\ closer = "done"
    /\ \A w \in DOMAIN workers : workers[w].pc = "done"

\* the context is cancelled (signal or deadline)
Cancel ==
    /\ ctx = "cancellable"
    /\ ~Terminated
    /\ ctx' = "done"
    /\ UNCHANGED <<pods, listed, ret, stdout, setup, opts, images, main, jobs, jobChan, jobChanClosed, resultChan,
                   resultChanClosed, producer, workers, closer, successCount,
                   errorCount, skippedCount, repos, tags, plan, log, inflight,
                   received>>

(***************************************************************************)
(* The "Send jobs" goroutine                                               *)
(***************************************************************************)
\* mutant: the producer walks the jobs from the last to the first
ProducerSendReversed ==
    /\ producer.pc = "send"
    /\ Len(jobChan) < JobChanCap
    /\ jobChan' = Append(jobChan, Len(jobs) + 1 - producer.i)
    /\ producer' = [pc |-> IF producer.i = Len(jobs) THEN "close" ELSE "send",
                    i |-> producer.i + 1]
    /\ UNCHANGED <<pods, listed, ret, stdout, setup, opts, images, ctx, main, jobs,
                   jobChanClosed, resultChan, resultChanClosed, workers, closer,
                   successCount, errorCount, skippedCount, repos, tags, plan, log,
                   inflight, received>>

\* select case jobChan <- job
ProducerSend ==
    /\ producer.pc = "send"
    /\ Len(jobChan) < JobChanCap
    /\ jobChan' = Append(jobChan, producer.i)
    /\ producer' = [pc |-> IF producer.i = Len(jobs) THEN "close" ELSE "send",
                    i |-> producer.i + 1]
    /\ UNCHANGED <<pods, listed, ret, stdout, setup, opts, images, ctx, main, jobs, jobChanClosed, resultChan,
                   resultChanClosed, workers, closer, successCount, errorCount,
                   skippedCount, repos, tags, plan, log, inflight, received>>

\* mutant: the producer returns on cancellation without closing jobChan
ProducerCancelledNoClose ==
    /\ producer.pc = "send"
    /\ ctxDone
    /\ producer' = [producer EXCEPT !.pc = "done"]
    /\ UNCHANGED <<pods, listed, ret, stdout, setup, opts, images, ctx, main, jobs, jobChan, jobChanClosed,
                   resultChan, resultChanClosed, workers, closer, successCount,
                   errorCount, skippedCount, repos, tags, plan, log, inflight,
                   received>>

\* select case <-ctx.Done(): return
ProducerCancelled ==
    /\ producer.pc = "send"
    /\ ctxDone
    /\ producer' = [producer EXCEPT !.pc = "close"]
    /\ UNCHANGED <<pods, listed, ret, stdout, setup, opts, images, ctx, main, jobs, jobChan, jobChanClosed,
                   resultChan, resultChanClosed, workers, closer, successCount,
                   errorCount, skippedCount, repos, tags, plan, log, inflight,
                   received>>

\* defer close(jobChan)
ProducerClose ==
    /\ producer.pc = "close"
    /\ jobChanClosed' = TRUE
    /\ producer' = [producer EXCEPT !.pc = "done"]
    /\ UNCHANGED <<pods, listed, ret, stdout, setup, opts, images, ctx, main, jobs, jobChan, resultChan,
                   resultChanClosed, workers, closer, successCount, errorCount,
                   skippedCount, repos, tags, plan, log, inflight, received>>

(***************************************************************************)
(* worker                                                                  *)
(***************************************************************************)
\* for job := range jobs: a job is received and processImageJob begins
WorkerReceive(w) ==
    /\ workers[w].pc = "recv"
    /\ jobChan # <<>>
    /\ LET j == Head(jobChan)
       IN  /\ jobChan' = Tail(jobChan)
           /\ workers' = [workers EXCEPT ![w] =
                            [pc |-> "create", job |-> j, err |-> "nil", skipped |-> FALSE,
                             late |-> ctxDone]]
           /\ inflight' = inflight \cup {<<w, j>>}
    /\ UNCHANGED <<pods, listed, ret, stdout, setup, opts, images, ctx, main, jobs, jobChanClosed, resultChan,
                   resultChanClosed, producer, closer, successCount, errorCount,
                   skippedCount, repos, tags, plan, log, received>>

\* mutant: the worker returns as soon as the job channel is empty
WorkerExitWhenEmpty(w) ==
    /\ workers[w].pc = "recv"
    /\ jobChan = <<>>
    /\ workers' = [workers EXCEPT ![w].pc = "done"]
    /\ UNCHANGED <<pods, listed, ret, stdout, setup, opts, images, ctx, main, jobs, jobChan, jobChanClosed,
                   resultChan, resultChanClosed, producer, closer, successCount,
                   errorCount, skippedCount, repos, tags, plan, log, inflight,
                   received>>

\* for job := range jobs: the channel is closed and drained, the worker returns
WorkerExit(w) ==
    /\ workers[w].pc = "recv"
    /\ jobChan = <<>>
    /\ jobChanClosed
    /\ workers' = [workers EXCEPT ![w].pc = "done"]
    /\ UNCHANGED <<pods, listed, ret, stdout, setup, opts, images, ctx, main, jobs, jobChan, jobChanClosed,
                   resultChan, resultChanClosed, producer, closer, successCount,
                   errorCount, skippedCount, repos, tags, plan, log, inflight,
                   received>>

\* the worker's state after a step of processImageJob; the job leaves
\* inflight when processImageJob returns
Stepped(w, after) ==
    /\ workers' = [workers EXCEPT ![w] =
                     [pc |-> after.pc, job |-> workers[w].job,
                      err |-> after.err, skipped |-> after.skipped,
                      late |-> workers[w].late]]
    /\ inflight' = IF after.pc = "send"
                   THEN inflight \ {<<w, workers[w].job>>}
                   ELSE inflight

\* processImageJob: ecrClient.CreateRepository(ctx, job.RepoName)
WorkerCreateRepository(w) ==
    /\ workers[w].pc = "create"
    /\ LET j == workers[w].job
       IN  \E resp \in {CreateRepositoryResponse(j)} :
             /\ repos' = IF resp = "created" THEN repos \cup {jobs[j].RepoName} ELSE repos
             /\ log' = [log EXCEPT ![j] = Append(@, <<"create", resp>>)]
             /\ Stepped(w, AfterCreate(CreateRepository(resp), opts.SkipExisting,
                                       TagOf(jobs[j].TargetImage)))
    /\ UNCHANGED <<pods, listed, ret, stdout, setup, opts, images, ctx, main, jobs, jobChan, jobChanClosed,
                   resultChan, resultChanClosed, producer, closer, successCount,
                   errorCount, skippedCount, tags, plan, received>>

\* processImageJob: ecrClient.ImageTagExists(ctx, job.RepoName, tag)
WorkerImageTagExists(w) ==
    /\ workers[w].pc = "tag"
    /\ LET j == workers[w].job
       IN  \E resp \in {DescribeImagesResponse(j, TagOf(jobs[j].TargetImage))} :
             /\ log' = [log EXCEPT ![j] = Append(@, <<"tag", resp>>)]
             /\ Stepped(w, AfterTagCheck(ImageTagExists(resp)))
    /\ UNCHANGED <<pods, listed, ret, stdout, setup, opts, images, ctx, main, jobs, jobChan, jobChanClosed,
                   resultChan, resultChanClosed, producer, closer, successCount,
                   errorCount, skippedCount, repos, tags, plan, received>>

\* processImageJob: transfer.Mirror(ctx, job.Image, job.TargetImage, opts.Platform)
WorkerMirror(w) ==
    /\ workers[w].pc = "mirror"
    /\ LET j == workers[w].job
       IN  IF MirrorRejects(opts.Platform)
           THEN /\ log' = [log EXCEPT ![j] = Append(@, <<"mirror", "rejected">>)]
                /\ tags' = tags
                /\ Stepped(w, AfterMirror("mirror"))
           ELSE \E resp \in {CopyResponse(j)} :
                  /\ tags' = IF resp = "copied"
                             THEN tags \cup {RefOf(jobs[j].TargetImage)}
                             ELSE tags
                  /\ log' = [log EXCEPT ![j] = Append(@, <<"mirror", resp>>)]
                  /\ Stepped(w, AfterMirror(IF resp = "copied" THEN "nil" ELSE "mirror"))
    /\ UNCHANGED <<pods, listed, ret, stdout, setup, opts, images, ctx, main, jobs, jobChan, jobChanClosed,
                   resultChan, resultChanClosed, producer, closer, successCount,
                   errorCount, skippedCount, repos, plan, received>>

\* mutant: a worker that reported a failed job returns instead of taking the
\* next job
WorkerSendResultStopsOnError(w) ==
    /\ workers[w].pc = "send"
    /\ Len(resultChan) < ResultChanCap
    /\ resultChan' = Append(resultChan,
                            [Job |-> workers[w].job, Error |-> workers[w].err,
                             Skipped |-> workers[w].skipped, late |-> workers[w].late])
    /\ workers' = [workers EXCEPT ![w] =
                     [pc |-> IF workers[w].err # "nil" THEN "done" ELSE "recv",
                      job |-> 0, err |-> "nil", skipped |-> FALSE, late |-> FALSE]]
    /\ UNCHANGED <<pods, listed, ret, stdout, setup, opts, images, ctx, main, jobs, jobChan,
                   jobChanClosed, resultChanClosed, producer, closer, successCount,
                   errorCount, skippedCount, repos, tags, plan, log, inflight,
                   received>>

\* select case results <- JobResult{...}
WorkerSendResult(w) ==
    /\ workers[w].pc = "send"
    /\ Len(resultChan) < ResultChanCap
    /\ resultChan' = Append(resultChan,
                            [Job |-> workers[w].job, Error |-> workers[w].err,
                             Skipped |-> workers[w].skipped, late |-> workers[w].late])
    /\ workers' = [workers EXCEPT ![w] =
                     [pc |-> "recv", job |-> 0, err |-> "nil", skipped |-> FALSE, late |-> FALSE]]
    /\ UNCHANGED <<pods, listed, ret, stdout, setup, opts, images, ctx, main, jobs, jobChan, jobChanClosed,
                   resultChanClosed, producer, closer, successCount, errorCount,
                   skippedCount, repos, tags, plan, log, inflight, received>>

\* select case <-ctx.Done(): return
WorkerCancelled(w) ==
    /\ workers[w].pc = "send"
    /\ ctxDone
    /\ workers' = [workers EXCEPT ![w] =
                     [pc |-> "done", job |-> 0, err |-> "nil", skipped |-> FALSE, late |-> FALSE]]
    /\ UNCHANGED <<pods, listed, ret, stdout, setup, opts, images, ctx, main, jobs, jobChan, jobChanClosed,
                   resultChan, resultChanClosed, producer, closer, successCount,
                   errorCount, skippedCount, repos, tags, plan, log, inflight,
                   received>>

(***************************************************************************)
(* The "Collect results" goroutine: wg.Wait(); close(resultChan)           *)
(***************************************************************************)
\* mutant: the result channel is closed as soon as the job queue is closed
\* and drained, without waiting for the workers
CloserCloseEarly ==
    /\ closer = "wait"
    /\ jobChanClosed /\ jobChan = <<>>
    /\ resultChanClosed' = TRUE
    /\ closer' = "done"
    /\ UNCHANGED <<pods, listed, ret, stdout, setup, opts, images, ctx, main, jobs, jobChan, jobChanClosed,
                   resultChan, producer, workers, successCount, errorCount,
                   skippedCount, repos, tags, plan, log, inflight, received>>

CloserClose ==
    /\ closer = "wait"
    /\ \A w \in DOMAIN workers : workers[w].pc = "done"
    /\ resultChanClosed' = TRUE
    /\ closer' = "done"
    /\ UNCHANGED <<pods, listed, ret, stdout, setup, opts, images, ctx, main, jobs, jobChan, jobChanClosed,
                   resultChan, producer, workers, successCount, errorCount,
                   skippedCount, repos, tags, plan, log, inflight, received>>

(***************************************************************************)
(* The aggregator: for result := range resultChan                          *)
(***************************************************************************)
\* mutant: a skipped result is counted with the failures
ClassifySkipAsError(result) ==
    IF result.Skipped \/ result.Error # "nil" THEN "error" ELSE "success"

\* the counter a result increments
Classify(result) ==
    IF result.Skipped THEN "skipped"
    ELSE IF result.Error # "nil" THEN "error"
    ELSE "success"

Collect ==
    /\ main = "collect"
    /\ resultChan # <<>>
    /\ LET result == Head(resultChan)
           kind == Classify(result)
       IN  /\ resultChan' = Tail(resultChan)
           /\ skippedCount' = IF kind = "skipped" THEN skippedCount + 1 ELSE skippedCount
           /\ errorCount' = IF kind = "error" THEN errorCount + 1 ELSE errorCount
           /\ successCount' = IF kind = "success" THEN successCount + 1 ELSE successCount
           /\ received' = [received EXCEPT ![result.Job] = Append(@, result)]
    /\ UNCHANGED <<pods, listed, ret, stdout, setup, opts, images, ctx, main, jobs, jobChan, jobChanClosed,
                   resultChanClosed, producer, workers, closer, repos, tags, plan,
                   log, inflight>>

\* mutant: processImagesConcurrently returns an error when a job failed
ProcessImagesReturnFailures(failed) ==
    IF failed > 0 THEN "jobs failed" ELSE "nil"

\* the value processImagesConcurrently returns after the summary: always nil
ProcessImagesReturn(failed) == "nil"

\* runPush after processImagesConcurrently returned: wrap its error, or
\* print the completion line and return nil
RunPushReturn(err) ==
    IF err # "nil" THEN "concurrent processing failed" ELSE "nil"

\* the result channel is closed and drained: print the summary, return nil;
\* runPush then returns
Finish ==
    /\ main = "collect"
    /\ resultChan = <<>>
    /\ resultChanClosed
    /\ main' = "done"
    /\ ret' = RunPushReturn(ProcessImagesReturn(errorCount))
    /\ UNCHANGED <<pods, listed, stdout, setup, opts, images, ctx, jobs, jobChan, jobChanClosed, resultChan,
                   resultChanClosed, producer, workers, closer, successCount,
                   errorCount, skippedCount, repos, tags, plan, log, inflight,
                   received>>

Next ==
    \/ Start
    \/ Cancel
    \/ ProducerSend
    \/ ProducerCancelled
    \/ ProducerClose
    \/ \E w \in DOMAIN workers : WorkerReceive(w)
    \/ \E w \in DOMAIN workers : WorkerExit(w)
    \/ \E w \in DOMAIN workers : WorkerCreateRepository(w)
    \/ \E w \in DOMAIN workers : WorkerImageTagExists(w)
    \/ \E w \in DOMAIN workers : WorkerMirror(w)
    \/ \E w \in DOMAIN workers : WorkerSendResult(w)
    \/ \E w \in DOMAIN workers : WorkerCancelled(w)
    \/ CloserClose
    \/ Collect
    \/ Finish

Spec == Init /\ [][Next]_vars

(***************************************************************************)
(* cmd/push.go: runPush from its entry: the setup steps, then the dry-run  *)
(* loop or processImagesConcurrently                                       *)
(***************************************************************************)
\* the setup steps of runPush that can fail, in order.  FilterImages never
\* returns an error, so "invalid include/exclude patterns" is no outcome.
SetupSteps ==
    <<"creating ECR client", "creating Kubernetes client",
      "listing pod images", "getting ECR auth token">>

SetupOutcomes == {"ok"} \cup {SetupSteps[k] : k \in 1..Len(SetupSteps)}

RunInit ==
    /\ opts \in [MaxConcurrent : -1..MaxWorkers,
                 SkipExisting : BOOLEAN,
                 Platform : {<<>>},
                 RepositoryPrefix : {Str_krane},
                 DryRun : BOOLEAN]
    /\ images \in ImageLists
    /\ ctx \in {"background", "cancellable"}
    /\ ctx = "cancellable" => plan \in CancelledPlans
    /\ main = "setup"
    /\ jobs = <<>>
    /\ jobChan = <<>> /\ jobChanClosed = FALSE
    /\ resultChan = <<>> /\ resultChanClosed = FALSE
    /\ producer = [pc |-> "idle", i |-> 1]
    /\ workers = <<>>
    /\ closer = "idle"
    /\ successCount = 0 /\ errorCount = 0 /\ skippedCount = 0
    /\ repos = {} /\ tags = {}
    /\ plan \in FaultPlans
    /\ log = <<>>
    /\ inflight = {}
    /\ received = <<>>
    /\ ret = "running"
    /\ stdout = <<>>
    /\ setup = "pending"
    /\ pods = <<>>
    /\ listed = <<>>

\* mutant: the dry-run flag is not consulted
AfterSetupNoDryRun(outcome, dryRun) ==
    IF outcome # "ok" THEN [main |-> "failed", ret |-> outcome]
    ELSE [main |-> "build", ret |-> "running"]

\* mutant: the error of GetAuthToken is ignored and the run goes on
AfterSetupIgnoresAuth(outcome, dryRun) ==
    IF outcome \in {"ok", "getting ECR auth token"}
    THEN [main |-> IF dryRun THEN "dryrun" ELSE "build", ret |-> "running"]
    ELSE [main |-> "failed", ret |-> outcome]

\* runPush after its setup steps: return the wrapped error of the step that
\* failed, else go on to the dry-run loop or to processImagesConcurrently
AfterSetup(outcome, dryRun) ==
    IF outcome # "ok" THEN [main |-> "failed", ret |-> outcome]
    ELSE [main |-> IF dryRun THEN "dryrun" ELSE "build", ret |-> "running"]

\* runPush lines 86-130; a call made with a cancelled context fails
Setup ==
    /\ main = "setup"
    /\ \E outcome \in SetupOutcomes :
          /\ ctxDone => outcome # "ok"
          /\ setup' = outcome
          /\ \E after \in {AfterSetup(outcome, opts.DryRun)} :
                main' = after.main /\ ret' = after.ret
    /\ UNCHANGED <<pods, listed, stdout, opts, images, ctx, jobs, jobChan, jobChanClosed,
                   resultChan, resultChanClosed, producer, workers, closer,
                   successCount, errorCount, skippedCount, repos, tags, plan,
                   log, inflight, received>>

\* the index of the image the dry-run loop prints next
DryRunIndex ==
    Cardinality({k \in 1..Len(stdout) : stdout[k].line = "Processing"}) + 1

\* one iteration of the dry-run loop: the lines it prints for image i
DryRunLines(i, imgs, prefix) ==
    Only({<<[line |-> "Processing", i |-> i, text |-> imgs[i]]>>
          \o (IF conv.err
              THEN <<[line |-> "Failed to convert image name", i |-> i, text |-> imgs[i]]>>
              ELSE <<[line |-> "DRY RUN: Would push", i |-> i, text |-> conv.target]>>) :
            conv \in {ConvertImageName(ecrClient, imgs[i], prefix)}})

\* for i, image := range uniqueImages (dry run)
DryRunStep ==
    /\ main = "dryrun"
    /\ DryRunIndex <= Len(images)
    /\ stdout' = stdout \o DryRunLines(DryRunIndex, images, opts.RepositoryPrefix)
    /\ UNCHANGED <<pods, listed, ret, setup, opts, images, ctx, main, jobs, jobChan,
                   jobChanClosed, resultChan, resultChanClosed, producer, workers,
                   closer, successCount, errorCount, skippedCount, repos, tags,
                   plan, log, inflight, received>>

\* the dry-run loop is over: runPush prints the completion line, returns nil
DryRunReturn ==
    /\ main = "dryrun"
    /\ DryRunIndex > Len(images)
    /\ main' = "done"
    /\ ret' = "nil"
    /\ UNCHANGED <<pods, listed, stdout, setup, opts, images, ctx, jobs, jobChan,
                   jobChanClosed, resultChan, resultChanClosed, producer, workers,
                   closer, successCount, errorCount, skippedCount, repos, tags,
                   plan, log, inflight, received>>

RunNext ==
    \/ Setup
    \/ DryRunStep
    \/ DryRunReturn
    \/ Next

RunSpec == RunInit /\ [][RunNext]_vars

(***************************************************************************)
(* processImagesConcurrently with the --platform option set                *)
(***************************************************************************)
Str_platform == <<"l","/","a">>
Str_multiPlatform == <<"l","/","a",",","b">>

PlatformInit ==
    /\ opts \in [MaxConcurrent : 1..MaxWorkers,
                 SkipExisting : BOOLEAN,
                 Platform : {Str_platform, Str_multiPlatform},
                 RepositoryPrefix : {Str_krane},
                 DryRun : {FALSE}]
    /\ images \in {SubSeq(SampleImages, 1, n) : n \in 1..MaxImages}
    /\ ctx \in {"background", "cancellable"}
    /\ plan = 0
    /\ main = "build"
    /\ jobs = <<>>
    /\ jobChan = <<>> /\ jobChanClosed = FALSE
    /\ resultChan = <<>> /\ resultChanClosed = FALSE
    /\ producer = [pc |-> "idle", i |-> 1]
    /\ workers = <<>>
    /\ closer = "idle"
    /\ successCount = 0 /\ errorCount = 0 /\ skippedCount = 0
    /\ repos = {} /\ tags = {}
    /\ log = <<>>
    /\ inflight = {}
    /\ received = <<>>
    /\ ret = "running"
    /\ stdout = <<>>
    /\ setup = "ok"
    /\ pods = <<>>
    /\ listed = <<>>

PlatformSpec == PlatformInit /\ [][Next]_vars

(***************************************************************************)
(* ConvertImageName on composed references: the dry-run loop of runPush    *)
(***************************************************************************)
\* the longest image list translated
MaxRefs == 2

HexDigits == <<"0","1","2","3","4","5","6","7","8","9","a","b","c","d","e","f">>
Str_hex64 == [k \in 1..64 |-> HexDigits[((k - 1) % Len(HexDigits)) + 1]] \o <<>>

\* the pieces source references are composed of
TagParts == << <<>>, <<":","v","1">>, <<":">> >>
DigestParts ==
    << <<>>, Str_sha256 \o Str_hex64, Str_sha256 \o <<"a","b","c">>,
       Str_sha256 \o <<"a",":","b">> >>
RegistryParts ==
    << <<>>, <<"r",".","i","o","/">>, Str_localhost \o <<"/">>, <<"h",":","5","/">> >>
PathParts ==
    << <<"n",".","x">>,
       <<"L","i","b","/","b">>,
       <<"a","/","b",":","1","/","c","@","d">>,
       <<"a","/",".",".","/","b">> >>

RefCount == Len(TagParts) * Len(DigestParts) * Len(RegistryParts) * Len(PathParts)

\* the pieces of the n-th reference, n in 0..RefCount-1
Parts(n) ==
    [tag |-> TagParts[(n % Len(TagParts)) + 1],
     digest |-> DigestParts[((n \div Len(TagParts)) % Len(DigestParts)) + 1],
     registry |-> RegistryParts[((n \div (Len(TagParts) * Len(DigestParts)))
                                    % Len(RegistryParts)) + 1],
     path |-> PathParts[(n \div (Len(TagParts) * Len(DigestParts) * Len(RegistryParts))) + 1]]

\* [registry/]path[:tag][@sha256:digest]
Reference(r) == r.registry \o r.path \o r.tag \o r.digest

References == [n \in 1..RefCount |-> Reference(Parts(n - 1))] \o <<>>

\* the image lists translated: up to MaxRefs consecutive references
ReferenceLists ==
    {SubSeq(References, v[1], v[1] + v[2] - 1) :
       v \in {w \in (1..RefCount) \X (0..MaxRefs) : w[1] + w[2] - 1 <= RefCount}}

Str_Kr == <<"K","r">>
Prefixes == {Str_krane, Str_Kr}

\* runPush in dry-run mode, its setup done, about to translate the images
TranslateInit ==
    /\ opts \in [MaxConcurrent : {1},
                 SkipExisting : {FALSE},
                 Platform : {<<>>},
                 RepositoryPrefix : Prefixes,
                 DryRun : {TRUE}]
    /\ images \in ReferenceLists
    /\ ctx = "background"
    /\ main = "dryrun"
    /\ jobs = <<>>
    /\ jobChan = <<>> /\ jobChanClosed = FALSE
    /\ resultChan = <<>> /\ resultChanClosed = FALSE
    /\ producer = [pc |-> "idle", i |-> 1]
    /\ workers = <<>>
    /\ closer = "idle"
    /\ successCount = 0 /\ errorCount = 0 /\ skippedCount = 0
    /\ repos = {} /\ tags = {}
    /\ plan = 0
    /\ log = <<>>
    /\ inflight = {}
    /\ received = <<>>
    /\ ret = "running"
    /\ stdout = <<>>
    /\ setup = "ok"
    /\ pods = <<>>
    /\ listed = <<>>

TranslateNext ==
    \/ DryRunStep
    \/ DryRunReturn

TranslateSpec == TranslateInit /\ [][TranslateNext]_vars

(***************************************************************************)
(* pkg/utils and pkg/k8s: matchers, filtering, deduplication, listing      *)
(***************************************************************************)
RECURSIVE TrimLeft(_)
TrimLeft(s) == IF s # <<>> /\ Head(s) = " " THEN TrimLeft(Tail(s)) ELSE s

RECURSIVE TrimRight(_)
TrimRight(s) ==
    IF s # <<>> /\ s[Len(s)] = " " THEN TrimRight(SubSeq(s, 1, Len(s) - 1)) ELSE s

\* strings.TrimSpace
TrimSpace(s) == TrimRight(TrimLeft(s))

\* strings.HasPrefix
HasPrefix(s, prefix) == HasPrefixAt(s, prefix, 0)

\* regexp.Compile succeeds.  The patterns explored are written with letters,
\* ' ', '.', '^' and '[': of these only a '[' (a character class that is
\* never closed) is a syntax error.
regexpCompiles(p) == ~Contains(p, <<"[">>)

\* the pattern re, from its element i on, matches s at position p: a letter
\* or ' ' matches itself, '.' any character, '^' the beginning of the text
RECURSIVE MatchHere(_, _, _, _)
MatchHere(re, i, s, p) ==
    IF i > Len(re) THEN TRUE
    ELSE IF re[i] = "^" THEN p = 1 /\ MatchHere(re, i + 1, s, p)
    ELSE /\ p <= Len(s)
         /\ re[i] = "." \/ re[i] = s[p]
         /\ MatchHere(re, i + 1, s, p + 1)

\* Regexp.MatchString: the pattern matches somewhere in s
MatchString(re, s) == \E p \in 1..(Len(s) + 1) : MatchHere(re, 1, s, p)

\* mutant: the patterns are compiled as given, blank ones included
RECURSIVE CompileFromNoTrim(_, _)
CompileFromNoTrim(patterns, i) ==
    IF i > Len(patterns) THEN <<>>
    ELSE Only({(IF regexpCompiles(p)
                THEN <<[isRegex |-> TRUE, prefix |-> <<>>, re |-> p]>>
                ELSE <<[isRegex |-> FALSE, prefix |-> p, re |-> <<>>]>>)
               \o CompileFromNoTrim(patterns, i + 1) :
                 p \in {patterns[i]}})

\* the loop of compileMatchers and of compileNamespaceMatchers from
\* patterns[i] on: trim, drop blank patterns, regex if it compiles, else prefix
RECURSIVE CompileFrom(_, _)
CompileFrom(patterns, i) ==
    IF i > Len(patterns) THEN <<>>
    ELSE Only({(IF p = <<>> THEN <<>>
                ELSE IF regexpCompiles(p)
                THEN <<[isRegex |-> TRUE, prefix |-> <<>>, re |-> p]>>
                ELSE <<[isRegex |-> FALSE, prefix |-> p, re |-> <<>>]>>)
               \o CompileFrom(patterns, i + 1) :
                 p \in {TrimSpace(patterns[i])}})

\* mutant: a pattern that does not compile is reported as an error
compileMatchersStrict(patterns) ==
    [matchers |-> CompileFrom(patterns, 1),
     err |-> IF \E k \in 1..Len(patterns) :
                   TrimSpace(patterns[k]) # <<>> /\ ~regexpCompiles(TrimSpace(patterns[k]))
             THEN "invalid pattern" ELSE "nil"]

\* compileMatchers: [matchers, err]
compileMatchers(patterns) == [matchers |-> CompileFrom(patterns, 1), err |-> "nil"]

\* compileNamespaceMatchers: [matchers, err]
compileNamespaceMatchers(patterns) ==
    [matchers |-> CompileFrom(patterns, 1), err |-> "nil"]

\* matcher.match and namespaceMatcher.match
match(m, str) == IF m.isRegex THEN MatchString(m.re, str) ELSE HasPrefix(str, m.prefix)

\* the matcher loops of FilterImages; namespaceMatchesAny
MatchesAny(str, matchers) == \E k \in 1..Len(matchers) : match(matchers[k], str)
namespaceMatchesAny(str, matchers) == \E k \in 1..Len(matchers) : match(matchers[k], str)

\* mutant: an include match outweighs an exclude match
KeepsIncludeWins(img, incMatchers, excMatchers) ==
    IF Len(incMatchers) > 0 THEN MatchesAny(img, incMatchers)
    ELSE ~MatchesAny(img, excMatchers)

\* the body of the loop of FilterImages: TRUE iff img is appended
Keeps(img, incMatchers, excMatchers) ==
    /\ Len(incMatchers) > 0 => MatchesAny(img, incMatchers)
    /\ ~MatchesAny(img, excMatchers)

\* mutant: the loop leaves out the last image
RECURSIVE KeepFromSkipsLast(_, _, _, _)
KeepFromSkipsLast(imgs, i, incMatchers, excMatchers) ==
    IF i > Len(imgs) THEN <<>>
    ELSE (IF i < Len(imgs) /\ Keeps(imgs[i], incMatchers, excMatchers) THEN <<imgs[i]>> ELSE <<>>)
         \o KeepFromSkipsLast(imgs, i + 1, incMatchers, excMatchers)

\* mutant: the loop leaves out the first image
RECURSIVE KeepFromSkipsFirst(_, _, _, _)
KeepFromSkipsFirst(imgs, i, incMatchers, excMatchers) ==
    IF i > Len(imgs) THEN <<>>
    ELSE (IF i > 1 /\ Keeps(imgs[i], incMatchers, excMatchers) THEN <<imgs[i]>> ELSE <<>>)
         \o KeepFromSkipsFirst(imgs, i + 1, incMatchers, excMatchers)

RECURSIVE KeepFrom(_, _, _, _)
KeepFrom(imgs, i, incMatchers, excMatchers) ==
    IF i > Len(imgs) THEN <<>>
    ELSE (IF Keeps(imgs[i], incMatchers, excMatchers) THEN <<imgs[i]>> ELSE <<>>)
         \o KeepFrom(imgs, i + 1, incMatchers, excMatchers)

\* FilterImages: [result, err]
FilterImages(imgs, includes, excludes) ==
    Only({IF inc.err # "nil" THEN [result |-> <<>>, err |-> inc.err]
          ELSE IF exc.err # "nil" THEN [result |-> <<>>, err |-> exc.err]
          ELSE [result |-> KeepFrom(imgs, 1, inc.matchers, exc.matchers), err |-> "nil"] :
            inc \in {compileMatchers(includes)}, exc \in {compileMatchers(excludes)}})

\* mutant: an item seen is not marked in keys
RECURSIVE RemoveDuplicatesFromNoMark(_, _, _)
RemoveDuplicatesFromNoMark(slice, i, keys) ==
    IF i > Len(slice) THEN <<>>
    ELSE IF slice[i] \in keys THEN RemoveDuplicatesFromNoMark(slice, i + 1, keys)
    ELSE <<slice[i]>> \o RemoveDuplicatesFromNoMark(slice, i + 1, keys)

\* the loop of RemoveDuplicates from slice[i] on, keys holding the items seen
RECURSIVE RemoveDuplicatesFrom(_, _, _)
RemoveDuplicatesFrom(slice, i, keys) ==
    IF i > Len(slice) THEN <<>>
    ELSE IF slice[i] \in keys THEN RemoveDuplicatesFrom(slice, i + 1, keys)
    ELSE <<slice[i]>> \o RemoveDuplicatesFrom(slice, i + 1, keys \cup {slice[i]})

RemoveDuplicates(slice) == RemoveDuplicatesFrom(slice, 1, {})

\* the loop of ListPodImagesFiltered over the pods the API returned
RECURSIVE PodImagesFrom(_, _, _, _, _)
PodImagesFrom(items, i, allNamespaces, incMatchers, excMatchers) ==
    IF i > Len(items) THEN <<>>
    ELSE (IF allNamespaces
             /\ \/ Len(incMatchers) > 0 /\ ~namespaceMatchesAny(items[i].Namespace, incMatchers)
                \/ Len(excMatchers) > 0 /\ namespaceMatchesAny(items[i].Namespace, excMatchers)
          THEN <<>>
          ELSE items[i].Containers \o items[i].InitContainers)
         \o PodImagesFrom(items, i + 1, allNamespaces, incMatchers, excMatchers)

\* Pods(listNamespace).List: the pods of the namespace, or all for ""
RECURSIVE PodsIn(_, _, _)
PodsIn(cluster, i, listNamespace) ==
    IF i > Len(cluster) THEN <<>>
    ELSE (IF listNamespace = <<>> \/ cluster[i].Namespace = listNamespace
          THEN <<cluster[i]>> ELSE <<>>)
         \o PodsIn(cluster, i + 1, listNamespace)

\* ListPodImagesFiltered, when the API call succeeds
ListPodImagesFiltered(cluster, allNamespaces, baseNamespace, includeNamespaces, excludeNamespaces) ==
    PodImagesFrom(PodsIn(cluster, 1, IF allNamespaces THEN <<>> ELSE baseNamespace), 1,
                  allNamespaces,
                  compileNamespaceMatchers(includeNamespaces).matchers,
                  compileNamespaceMatchers(excludeNamespaces).matchers)

(***************************************************************************)
(* cmd/push.go: runPush, from listing the pod images to the filtered list  *)
(***************************************************************************)
MaxPods == 2
MaxPatterns == 1

SamplePods ==
    <<[Namespace |-> <<"a","b">>,
       Containers |-> << <<"a","b","c">>, <<"b">> >>, InitContainers |-> <<>>],
      [Namespace |-> <<"b">>,
       Containers |-> << <<"c","a","b">> >>, InitContainers |-> << <<"b">> >>],
      [Namespace |-> <<"[","a">>,
       Containers |-> << <<"[","a","b">>, <<"a","b","c">> >>, InitContainers |-> <<>>],
      [Namespace |-> <<"c","a">>,
       Containers |-> << <<"b">> >>, InitContainers |-> << <<"a","b","c">> >>]>>

\* the clusters explored: up to MaxPods consecutive sample pods
Clusters ==
    {SubSeq(SamplePods, w[1], w[1] + w[2] - 1) :
        w \in {v \in (1..Len(SamplePods)) \X (0..MaxPods) :
                  v[1] + v[2] - 1 <= Len(SamplePods)}}

SamplePatterns ==
    << <<"a">>, <<"a","b">>, <<" ">>, <<"^","b">>, <<"[","a">>, <<" ","b"," ">> >>

\* the pattern lists explored: up to MaxPatterns consecutive sample patterns
PatternLists ==
    {SubSeq(SamplePatterns, w[1], w[1] + w[2] - 1) :
        w \in {v \in (1..Len(SamplePatterns)) \X (0..MaxPatterns) :
                  v[1] + v[2] - 1 <= Len(SamplePatterns)}}

ListInit ==
    /\ opts \in [AllNamespaces : BOOLEAN,
                 Namespace : {<<>>, <<" ">>, <<"a","b">>},
                 IncludeNamespaces : {<<>>, << <<"[","a">> >>},
                 ExcludeNamespaces : {<<>>, << <<"b">> >>},
                 IncludePatterns : PatternLists,
                 ExcludePatterns : PatternLists,
                 RepositoryPrefix : {Str_krane}]
    /\ pods \in Clusters
    /\ listed = <<>>
    /\ images = <<>>
    /\ main = "list"
    /\ ctx = "background"
    /\ plan = 0
    /\ jobs = <<>>
    /\ jobChan = <<>> /\ jobChanClosed = FALSE
    /\ resultChan = <<>> /\ resultChanClosed = FALSE
    /\ producer = [pc |-> "idle", i |-> 1]
    /\ workers = <<>>
    /\ closer = "idle"
    /\ successCount = 0 /\ errorCount = 0 /\ skippedCount = 0
    /\ repos = {} /\ tags = {}
    /\ log = <<>>
    /\ inflight = {}
    /\ received = <<>>
    /\ ret = "running"
    /\ stdout = <<>>
    /\ setup = "pending"

\* what the listing steps leave alone
schedulerVars ==
    <<pods, opts, ctx, plan, jobs, jobChan, jobChanClosed, resultChan,
      resultChanClosed, producer, workers, closer, successCount, errorCount,
      skippedCount, repos, tags, log, inflight, received, stdout, setup>>

\* mutant: only the flag decides, a blank namespace is not looked at
EffectiveAllNamespacesFlagOnly(allNamespaces, namespace) == allNamespaces

\* runPush lines 102-105
EffectiveAllNamespaces(allNamespaces, namespace) ==
    allNamespaces \/ TrimSpace(namespace) = <<>>

\* images, err := k8s.ListPodImagesFiltered(...); the API call may fail
ListPods ==
    /\ main = "list"
    /\ \E apiFails \in BOOLEAN :
          IF apiFails
          THEN /\ main' = "failed"
               /\ ret' = "listing pod images"
               /\ listed' = listed
          ELSE /\ main' = "dedup"
               /\ ret' = ret
               /\ listed' = ListPodImagesFiltered(
                                pods,
                                EffectiveAllNamespaces(opts.AllNamespaces, opts.Namespace),
                                opts.Namespace, opts.IncludeNamespaces,
                                opts.ExcludeNamespaces)
    /\ images' = images
    /\ UNCHANGED schedulerVars

\* uniqueImages := utils.RemoveDuplicates(images)
Deduplicate ==
    /\ main = "dedup"
    /\ images' = RemoveDuplicates(listed)
    /\ main' = "filter"
    /\ UNCHANGED <<listed, ret>>
    /\ UNCHANGED schedulerVars

\* filtered, err := utils.FilterImages(uniqueImages, includes, excludes)
Filter ==
    /\ main = "filter"
    /\ \E r \in {FilterImages(images, opts.IncludePatterns, opts.ExcludePatterns)} :
          IF r.err # "nil"
          THEN /\ main' = "failed"
               /\ ret' = "invalid include/exclude patterns"
               /\ images' = images
          ELSE /\ main' = "filtered"
               /\ ret' = ret
               /\ images' = r.result
    /\ listed' = listed
    /\ UNCHANGED schedulerVars

ListNext ==
    \/ ListPods
    \/ Deduplicate
    \/ Filter

ListSpec == ListInit /\ [][ListNext]_vars

(***************************************************************************)
(* The scheduler under fair scheduling: every goroutine that can take a    *)
(* step eventually takes one (a select with several ready cases takes one  *)
(* of them), and every remote call returns.  Cancellation may or may not   *)
(* happen.                                                                 *)
(***************************************************************************)
ProducerStep == ProducerSend \/ ProducerCancelled \/ ProducerClose

WorkerStep(w) ==
    /\ w \in DOMAIN workers
    /\ \/ WorkerReceive(w)
       \/ WorkerExit(w)
       \/ WorkerCreateRepository(w)
       \/ WorkerImageTagExists(w)
       \/ WorkerMirror(w)
       \/ WorkerSendResult(w)
       \/ WorkerCancelled(w)

AggregatorStep == Collect \/ Finish

FairSpec ==
    /\ Init
    /\ [][Next]_vars
    /\ WF_vars(Start)
    /\ WF_vars(ProducerStep)
    /\ \A w \in WorkerIDs(MaxWorkers) : WF_vars(WorkerStep(w))
    /\ WF_vars(CloserClose)
    /\ WF_vars(AggregatorStep)

(***************************************************************************)
(* Properties                                                              *)
(***************************************************************************)
JobIds == 1..Len(jobs)

\* the answers job j got from a call
LogHas(j, call, resp) == \E k \in 1..Len(log[j]) : log[j][k] = <<call, resp>>
Called(j, call) == \E k \in 1..Len(log[j]) : log[j][k][1] = call

\* every JobResult of job j that exists: held by a worker about to send it,
\* buffered in the result channel, or consumed by the aggregator
ResultsOf(j) ==
    {[Job |-> j, Error |-> workers[w].err, Skipped |-> workers[w].skipped,
      late |-> workers[w].late] :
        w \in {v \in DOMAIN workers : workers[v].pc = "send" /\ workers[v].job = j}}
    \cup {resultChan[k] : k \in {i \in 1..Len(resultChan) : resultChan[i].Job = j}}
    \cup {received[j][k] : k \in 1..Len(received[j])}

TotalCount == successCount + skippedCount + errorCount

\* C1: with MaxConcurrent = C >= 1, at most C jobs are inside processImageJob
\* at any time, each of them in one worker, and no worker runs two jobs at once.
InFlightBounded ==
    opts.MaxConcurrent >= 1 =>
        /\ Cardinality({p[2] : p \in inflight}) <= opts.MaxConcurrent
        /\ Cardinality({p[2] : p \in inflight}) = Cardinality(inflight)
        /\ \A p, q \in inflight : p[1] = q[1] => p = q

\* C1 witness: more jobs than workers, every worker busy, a job still queued
InFlightFull ==
    /\ opts.MaxConcurrent >= 1
    /\ Len(jobs) > opts.MaxConcurrent
    /\ Cardinality(inflight) = opts.MaxConcurrent
    /\ jobChan # <<>>

\* C2: in a run that is not cancelled, with C >= 1, when the aggregator returns
\* every built job was executed and has exactly one consumed result, and the
\* three counters sum to the number of built jobs.
AllJobsCounted ==
    (main = "done" /\ ctx # "done" /\ opts.MaxConcurrent >= 1) =>
        /\ TotalCount = Len(jobs)
        /\ \A j \in JobIds : Called(j, "create") /\ Len(received[j]) = 1

\* C2 witness: a finished run without cancellation in which one job failed
\* and another succeeded
MixedRunCounted ==
    /\ main = "done" /\ ctx # "done" /\ opts.MaxConcurrent >= 1
    /\ Len(jobs) = 2
    /\ errorCount = 1 /\ successCount = 1

\* C3 (as claimed): when the aggregator returns, every job a worker executed
\* has exactly one consumed result, and no job has more than one.
ExecutedJobsReported ==
    main = "done" =>
        \A j \in JobIds :
            /\ Called(j, "create") => Len(received[j]) = 1
            /\ Len(received[j]) <= 1

\* C4: under fair scheduling the pipeline terminates, cancelled or not: the
\* producer, every worker, the closer and the aggregator end; and the
\* aggregator never holds outcomes for more than the built jobs.
Termination ==
    /\ <>Terminated
    /\ [](TotalCount <= Len(jobs))

\* C4 witness: a run cancelled midway has terminated with fewer outcomes
\* than jobs
CancelledRunTerminated ==
    /\ Terminated
    /\ ctx = "done"
    /\ Len(jobs) >= 2
    /\ TotalCount >= 1
    /\ TotalCount < Len(jobs)

\* C5 (as claimed): once ctx is cancelled the producer puts no further job
\* into the job channel.
NoEnqueueAfterCancel ==
    [][ctxDone => jobChan' # Append(jobChan, producer.i)]_vars

\* C6 (as claimed): no worker ever holds a job that it received from the job
\* channel after ctx was cancelled.
NoDequeueAfterCancel ==
    \A w \in DOMAIN workers : ~workers[w].late

\* C7 (as claimed): the aggregator never waits for a job that was still queued
\* when ctx was cancelled: it consumes no result of a job received by a worker
\* after the cancellation.
ConsumerStopsOnCancel ==
    \A j \in DOMAIN received :
        \A k \in 1..Len(received[j]) : ~received[j][k].late

\* C8: with skip-existing, once the registry answered that the job's tag
\* exists, transfer.Mirror is not called for the job and every result of the
\* job is Skipped = true, Error = nil.
SkipExistingSkips ==
    \A j \in DOMAIN log :
        (opts.SkipExisting /\ LogHas(j, "tag", "found")) =>
            /\ ~Called(j, "mirror")
            /\ \A r \in ResultsOf(j) : r.Skipped /\ r.Error = "nil"

\* C8 witness: a job whose tag was found has its result consumed
SkippedJobReported ==
    \E j \in DOMAIN log :
        /\ opts.SkipExisting
        /\ LogHas(j, "tag", "found")
        /\ Len(received[j]) = 1

\* C9: with skip-existing, once the tag-existence query of a job returned an
\* error, transfer.Mirror is not called for the job and every result of the
\* job is a failure (Error non-nil, Skipped = false).
TagCheckErrorFails ==
    \A j \in DOMAIN log :
        (opts.SkipExisting /\ LogHas(j, "tag", "error")) =>
            /\ ~Called(j, "mirror")
            /\ \A r \in ResultsOf(j) : r.Error # "nil" /\ ~r.Skipped

\* C9 witness: a job whose tag query failed has its result consumed
TagCheckErrorReported ==
    \E j \in DOMAIN log :
        /\ opts.SkipExisting
        /\ LogHas(j, "tag", "error")
        /\ Len(received[j]) = 1

\* the job went on after CreateRepository: a later call was made for it, or
\* its worker is about to make one
Proceeded(j) ==
    \/ Len(log[j]) >= 2
    \/ \E w \in DOMAIN workers :
          workers[w].job = j /\ workers[w].pc \in {"tag", "mirror"}

\* C10: a job whose repository already exists gets no creation error and goes
\* on to the next step; a job whose creation failed otherwise makes no further
\* call and is reported as failed; and no job is reported with a creation
\* error unless its own creation request failed.
CreateIdempotent ==
    \A j \in DOMAIN log :
        /\ LogHas(j, "create", "RepositoryAlreadyExistsException") =>
              /\ Proceeded(j)
              /\ \A r \in ResultsOf(j) : r.Error # "create"
        /\ LogHas(j, "create", "error") =>
              /\ Len(log[j]) = 1
              /\ \A r \in ResultsOf(j) : r.Error = "create" /\ ~r.Skipped
        /\ \A r \in ResultsOf(j) :
              r.Error = "create" => LogHas(j, "create", "error")

\* C10 witness: a job found its repository existing and was reported without
\* error, and the job that created the repository was reported too
ExistingRepositoryAccepted ==
    \E j, k \in DOMAIN log :
        /\ j # k
        /\ LogHas(k, "create", "created") /\ Len(received[k]) = 1
        /\ LogHas(j, "create", "RepositoryAlreadyExistsException")
        /\ Len(received[j]) = 1
        /\ received[j][1].Error = "nil"

\* C11: during a run every repository name is created at most once, in every
\* interleaving, also when jobs running concurrently share the name; a job
\* that finds its repository existing proceeds and gets no creation error.
RepositoryCreatedOnce ==
    /\ \A r \in {jobs[j].RepoName : j \in JobIds} :
          Cardinality({c \in UNION {{<<j, k>> : k \in 1..Len(log[j])} : j \in DOMAIN log} :
                          /\ jobs[c[1]].RepoName = r
                          /\ log[c[1]][c[2]] = <<"create", "created">>}) <= 1
    /\ \A j \in DOMAIN log :
          LogHas(j, "create", "RepositoryAlreadyExistsException") =>
              /\ Proceeded(j)
              /\ \A r \in ResultsOf(j) : r.Error # "create"

\* C11 witness: two jobs with the same repository name are in flight at the
\* same time; one created the repository, the other found it existing
ConcurrentSharedRepository ==
    \E j, k \in DOMAIN log :
        /\ j # k
        /\ jobs[j].RepoName = jobs[k].RepoName
        /\ {j, k} \subseteq {p[2] : p \in inflight}
        /\ LogHas(j, "create", "created")
        /\ LogHas(k, "create", "RepositoryAlreadyExistsException")

\* a call made for job j failed
OwnFailure(j) ==
    \E k \in 1..Len(log[j]) : log[j][k][2] \in {"error", "rejected"}

SequentialOutcome(j, T) ==
    IF CreateRepository(IF FaultOf(j) = "create" THEN "error" ELSE "created") # "nil"
    THEN [kind |-> "error", tags |-> T]
    ELSE IF opts.SkipExisting /\ TagOf(jobs[j].TargetImage) # <<>>
            /\ FaultOf(j) = "tag"
    THEN [kind |-> "error", tags |-> T]
    ELSE IF opts.SkipExisting /\ TagOf(jobs[j].TargetImage) # <<>>
            /\ RefOf(jobs[j].TargetImage) \in T
    THEN [kind |-> "skipped", tags |-> T]
    ELSE IF MirrorRejects(opts.Platform) \/ FaultOf(j) = "mirror"
    THEN [kind |-> "error", tags |-> T]
    ELSE [kind |-> "success", tags |-> T \cup {RefOf(jobs[j].TargetImage)}]

RECURSIVE SequentialKinds(_, _)
SequentialKinds(j, T) ==
    IF j > Len(jobs) THEN <<>>
    ELSE Only({<<o.kind>> \o SequentialKinds(j + 1, o.tags) :
                 o \in {SequentialOutcome(j, T)}})

CountOf(kinds, kind) == Cardinality({k \in 1..Len(kinds) : kinds[k] = kind})

\* C13 (as claimed): the summary of a run without cancellation is the same in
\* every interleaving, hence that of the interleaving in which the jobs run
\* one after another in input order.
SummaryDeterministic ==
    (main = "done" /\ ctx # "done" /\ opts.MaxConcurrent >= 1) =>
        \A kinds \in {SequentialKinds(1, {})} :
            /\ successCount = CountOf(kinds, "success")
            /\ skippedCount = CountOf(kinds, "skipped")
            /\ errorCount = CountOf(kinds, "error")

\* the results the aggregator consumed, as <<job, position>>
Consumed ==
    UNION {{<<j, k>> : k \in 1..Len(received[j])} : j \in DOMAIN received}

\* every JobResult that exists
AllResults ==
    UNION {ResultsOf(j) : j \in DOMAIN log}

\* C14: every JobResult is exactly one of success, skipped, failure (never
\* Skipped together with an error), and each consumed result was counted in
\* exactly the counter of its kind: a skip is never counted as a failure.
ResultKindsExclusive ==
    /\ \A r \in AllResults : ~(r.Skipped /\ r.Error # "nil")
    /\ successCount =
          Cardinality({c \in Consumed : /\ received[c[1]][c[2]].Error = "nil"
                                        /\ ~received[c[1]][c[2]].Skipped})
    /\ skippedCount =
          Cardinality({c \in Consumed : /\ received[c[1]][c[2]].Skipped
                                        /\ received[c[1]][c[2]].Error = "nil"})
    /\ errorCount =
          Cardinality({c \in Consumed : /\ received[c[1]][c[2]].Error # "nil"
                                        /\ ~received[c[1]][c[2]].Skipped})

\* C14 witness: a finished run with one skipped and one successful job
SkipAndSuccessCounted ==
    /\ main = "done"
    /\ skippedCount = 1 /\ successCount = 1 /\ errorCount = 0

\* the images of imgs[i..] whose translation succeeds, in input order
RECURSIVE TranslatedFrom(_, _, _)
TranslatedFrom(imgs, i, prefix) ==
    IF i > Len(imgs) THEN <<>>
    ELSE Only({(IF conv.err THEN <<>> ELSE <<imgs[i]>>)
               \o TranslatedFrom(imgs, i + 1, prefix) :
                 conv \in {ConvertImageName(ecrClient, imgs[i], prefix)}})

Str_krane_nginx == Str_krane \o <<"/","n","g","i","n","x">>
Str_krane_busybox ==
    Str_krane \o <<"/","l","i","b","r","a","r","y","/","b","u","s","y","b","o","x">>

\* the spec's scenario: nginx:1.25, busybox by digest and bad/../name give
\* exactly the jobs krane/nginx:1.25 and krane/library/busybox:sha-aaaaaaaaaaaa
ScenarioJobs ==
    \A b \in {BuildJobs(<<Img_nginx125, Img_busybox, Img_bad>>, Str_krane)} :
        /\ Len(b) = 2
        /\ b[1].Image = Img_nginx125
        /\ RefOf(b[1].TargetImage) = <<Str_krane_nginx, <<"1",".","2","5">>>>
        /\ b[1].RepoName = Str_krane_nginx
        /\ b[2].Image = Img_busybox
        /\ RefOf(b[2].TargetImage) = <<Str_krane_busybox, Str_sha \o [k \in 1..12 |-> "a"]>>
        /\ b[2].RepoName = Str_krane_busybox

\* C15: the jobs built are exactly the images whose translation succeeds, in
\* input order (the spec's scenario included); only built jobs are enqueued,
\* called for and counted.
TranslationFailuresDropped ==
    /\ [][(main = "build" /\ main' # "build") =>
            /\ [j \in 1..Len(jobs') |-> jobs'[j].Image] \o <<>>
                  = TranslatedFrom(images, 1, opts.RepositoryPrefix)
            /\ ScenarioJobs]_vars
    /\ [](/\ \A k \in 1..Len(jobChan) : jobChan[k] \in JobIds
          /\ DOMAIN log \subseteq JobIds
          /\ \A r \in AllResults : r.Job \in JobIds
          /\ TotalCount <= Len(jobs))

\* C15 witness: a finished run in which an image failed translation and the
\* remaining job was executed and counted
FailedTranslationNotCounted ==
    /\ main = "done"
    /\ Len(jobs) >= 1
    /\ Len(jobs) < Len(images)
    /\ TotalCount = Len(jobs)
    /\ \A j \in JobIds : Called(j, "create")

\* C16 (as claimed): the indices of the built jobs are 1..total without gaps
\* and total is the number of built jobs.
JobIndexDense ==
    \A j \in JobIds : jobs[j].Index = j /\ jobs[j].Total = Len(jobs)

\* a worker has received job j from the job channel
Dequeued(j) ==
    \/ \E w \in DOMAIN workers : workers[w].job = j
    \/ log[j] # <<>>

\* C17: the job channel holds the jobs in input order and a job is never
\* dequeued before the jobs built before it.
QueueFIFO ==
    /\ \A k \in 1..(Len(jobChan) - 1) : jobChan[k] < jobChan[k + 1]
    /\ \A i, j \in JobIds : (i < j /\ Dequeued(j)) => Dequeued(i)

\* C17 witness: both jobs were dequeued in order, and the later job's result
\* was consumed before the earlier job's
OutOfOrderCompletion ==
    \E i, j \in JobIds :
        /\ i < j
        /\ Dequeued(i) /\ Dequeued(j)
        /\ received[j] # <<>>
        /\ received[i] = <<>>

\* in a dry run nothing of the scheduler exists and no remote call was made
SchedulerUntouched ==
    /\ jobs = <<>> /\ workers = <<>>
    /\ jobChan = <<>> /\ ~jobChanClosed
    /\ resultChan = <<>> /\ ~resultChanClosed
    /\ producer.pc = "idle" /\ closer = "idle"
    /\ log = <<>> /\ inflight = {} /\ received = <<>>
    /\ repos = {} /\ tags = {}
    /\ TotalCount = 0

\* C18 (as claimed): in dry-run mode the scheduler is bypassed, no remote call
\* is made, and when runPush has returned exactly one line per image was
\* printed, in input order.
DryRunOneLinePerImage ==
    opts.DryRun =>
        /\ SchedulerUntouched
        /\ ret = "nil" =>
              /\ Len(stdout) = Len(images)
              /\ \A i \in 1..Len(stdout) : stdout[i].i = i

\* C18 (amended): in dry-run mode the scheduler is bypassed, no remote call
\* is made, and when runPush has returned two lines per image were printed, in
\* input order: the progress line of the image, then exactly one result line
\* (the target it would push to, or the translation failure).
DryRunBypassesScheduler ==
    opts.DryRun =>
        /\ SchedulerUntouched
        /\ ret = "nil" =>
              /\ Len(stdout) = Len(images) + Len(images)
              /\ \A i \in 1..Len(images) :
                    /\ stdout[i + i - 1] = [line |-> "Processing", i |-> i, text |-> images[i]]
                    /\ stdout[i + i].i = i
                    /\ stdout[i + i].line \in
                          {"DRY RUN: Would push", "Failed to convert image name"}
                    /\ stdout[i + i].line = "Failed to convert image name"
                          => stdout[i + i].text = images[i]

\* C18 witness: a dry run over two images has returned, one of the images
\* failed translation
DryRunPrinted ==
    /\ opts.DryRun
    /\ ret = "nil"
    /\ Len(images) = 2
    /\ \E k \in 1..Len(stdout) : stdout[k].line = "Failed to convert image name"
    /\ \E k \in 1..Len(stdout) : stdout[k].line = "DRY RUN: Would push"

\* C19: when a setup step failed, runPush has returned that step's error and
\* no job was built or scheduled, no remote call made, nothing printed by the
\* dry-run loop.
SetupFailureAborts ==
    setup \notin {"pending", "ok"} =>
        /\ main = "failed"
        /\ ret = setup
        /\ SchedulerUntouched
        /\ stdout = <<>>

\* C19 witness: the last setup step, the auth token, failed
AuthTokenFailed ==
    /\ setup = "getting ECR auth token"
    /\ ret = "getting ECR auth token"

\* C20: when setup succeeded, whatever runPush returns is nil, also when
\* every job failed and when the run was cancelled.
ReturnsNilAfterSetup ==
    (setup = "ok" /\ ret # "running") => (ret = "nil" /\ main = "done")

\* C20 witness: every job of the run failed and runPush returned nil
AllFailedReturnsNil ==
    /\ setup = "ok"
    /\ ret = "nil"
    /\ ~opts.DryRun
    /\ Len(jobs) = 2
    /\ errorCount = Len(jobs)

\* C21 (as claimed): with a comma-separated platform value no network call is
\* made for any job: the only thing that happens for a job is the rejection.
MultiPlatformRejectedFirst ==
    Contains(opts.Platform, <<",">>) =>
        \A j \in DOMAIN log :
            \A k \in 1..Len(log[j]) : log[j][k] = <<"mirror", "rejected">>

CreateSucceeded(entry) ==
    entry \in {<<"create", "created">>, <<"create", "RepositoryAlreadyExistsException">>}

TagAbsent(entry) ==
    entry \in {<<"tag", "RepositoryNotFoundException">>, <<"tag", "ImageNotFoundException">>}

\* C28: the calls of a job come in the order create, tag check (only with
\* skip-existing), mirror: the tag check only after a successful creation, the
\* mirror only after a successful creation and, with skip-existing, a tag
\* check that answered "not existing"; after an error (or a skip) no further
\* call is made for the job.
JobStateOrder ==
    \A j \in DOMAIN log :
        \A k \in 1..Len(log[j]) :
            /\ log[j][k][1] = "create" => k = 1
            /\ log[j][k][1] = "tag" =>
                  k = 2 /\ opts.SkipExisting /\ CreateSucceeded(log[j][1])
            /\ log[j][k][1] = "mirror" =>
                  /\ k = Len(log[j])
                  /\ CreateSucceeded(log[j][1])
                  /\ IF opts.SkipExisting THEN k = 3 /\ TagAbsent(log[j][2]) ELSE k = 2
            /\ k < Len(log[j]) => (CreateSucceeded(log[j][k]) \/ TagAbsent(log[j][k]))

\* C28 witness: a job went through creation, tag check and mirror and its
\* result was consumed
FullJobPath ==
    \E j \in DOMAIN log :
        /\ Len(log[j]) = 3
        /\ log[j][3] = <<"mirror", "copied">>
        /\ Len(received[j]) = 1

\* the places where a result of job j is: workers about to send, the result
\* channel, the aggregator
ResultPlaces(j) ==
    {<<"worker", w>> : w \in {v \in DOMAIN workers :
                                 workers[v].pc = "send" /\ workers[v].job = j}}
    \cup {<<"chan", k>> : k \in {i \in 1..Len(resultChan) : resultChan[i].Job = j}}
    \cup {<<"received", k>> : k \in 1..Len(received[j])}

\* C29: every job is held by at most one worker and is in the queue at most
\* once and never again once dequeued; each of its calls is made at most once;
\* it has at most one result, reported at most once.
ExecutedAtMostOnce ==
    \A j \in JobIds :
        /\ \A call \in {"create", "tag", "mirror"} :
              Cardinality({k \in 1..Len(log[j]) : log[j][k][1] = call}) <= 1
        /\ Cardinality({w \in DOMAIN workers : workers[w].job = j}) <= 1
        /\ Cardinality({k \in 1..Len(jobChan) : jobChan[k] = j}) <= 1
        /\ Dequeued(j) => \A k \in 1..Len(jobChan) : jobChan[k] # j
        /\ Cardinality(ResultPlaces(j)) <= 1

\* C29 witness: a job that failed after its repository was created has been
\* reported once, in a finished run of two jobs
FailedJobReportedOnce ==
    /\ main = "done"
    /\ Len(jobs) = 2
    /\ \E j \in JobIds :
          /\ OwnFailure(j)
          /\ Len(log[j]) >= 2
          /\ Len(received[j]) = 1
          /\ received[j][1].Error # "nil"

\* C30 (as claimed): with skip-existing the mirror copy is performed at most
\* once per target reference.
MirrorOncePerTarget ==
    opts.SkipExisting =>
        \A j, k \in DOMAIN log :
            (/\ jobs[j].TargetImage = jobs[k].TargetImage
             /\ LogHas(j, "mirror", "copied")
             /\ LogHas(k, "mirror", "copied")) => j = k

Range(seq) == {seq[k] : k \in 1..Len(seq)}

\* match(s, p) of the filter contract: the regular expression p matches s if
\* p compiles, else s starts with p
PatternMatch(str, p) ==
    IF regexpCompiles(p) THEN MatchString(p, str) ELSE HasPrefix(str, p)

\* the items of L, in order, that the matching rule keeps for the patterns
RECURSIVE SelectByRule(_, _, _, _)
SelectByRule(L, i, includes, excludes) ==
    IF i > Len(L) THEN <<>>
    ELSE (IF /\ includes = <<>> \/ \E k \in 1..Len(includes) : PatternMatch(L[i], includes[k])
             /\ ~\E k \in 1..Len(excludes) : PatternMatch(L[i], excludes[k])
          THEN <<L[i]>> ELSE <<>>)
         \o SelectByRule(L, i + 1, includes, excludes)

\* the patterns of a list, trimmed, without the blank ones
RECURSIVE Effective(_)
Effective(patterns) ==
    IF patterns = <<>> THEN <<>>
    ELSE (IF TrimSpace(Head(patterns)) = <<>> THEN <<>> ELSE <<TrimSpace(Head(patterns))>>)
         \o Effective(Tail(patterns))

\* the lists FilterImages is examined on in a state
FilterInputs == {listed, RemoveDuplicates(listed)}

\* C22 (as claimed): FilterImages returns without error the items, in input
\* order, for which the include list is empty or some include pattern
\* matches, and no exclude pattern matches.
FilterKeepsRuleAsWritten ==
    /\ \A L \in FilterInputs :
          FilterImages(L, opts.IncludePatterns, opts.ExcludePatterns)
             = [result |-> SelectByRule(L, 1, opts.IncludePatterns, opts.ExcludePatterns),
                err |-> "nil"]
    /\ main = "filtered" =>
          images = SelectByRule(RemoveDuplicates(listed), 1,
                                opts.IncludePatterns, opts.ExcludePatterns)

\* C22 (amended): the same with the patterns trimmed of surrounding
\* whitespace and the blank patterns left out of both lists.
FilterKeepsRule ==
    /\ \A L \in FilterInputs :
          FilterImages(L, opts.IncludePatterns, opts.ExcludePatterns)
             = [result |-> SelectByRule(L, 1, Effective(opts.IncludePatterns),
                                        Effective(opts.ExcludePatterns)),
                err |-> "nil"]
    /\ main = "filtered" =>
          images = SelectByRule(RemoveDuplicates(listed), 1,
                                Effective(opts.IncludePatterns),
                                Effective(opts.ExcludePatterns))

\* C22 witness: includes = [a], excludes = [ab]: abc was listed and is
\* excluded, while another item is kept
ExcludeVetoes ==
    /\ main = "filtered"
    /\ opts.IncludePatterns = << <<"a">> >>
    /\ opts.ExcludePatterns = << <<"a","b">> >>
    /\ <<"a","b","c">> \in Range(listed)
    /\ <<"a","b","c">> \notin Range(images)

\* C23: filtering a filtered list with the same patterns changes nothing.
FilterIdempotent ==
    /\ \A L \in FilterInputs :
          \A once \in {FilterImages(L, opts.IncludePatterns, opts.ExcludePatterns).result} :
              FilterImages(once, opts.IncludePatterns, opts.ExcludePatterns).result = once
    /\ main = "filtered" =>
          FilterImages(images, opts.IncludePatterns, opts.ExcludePatterns).result = images

\* C23 witness: the filter kept some items and dropped others
FilterKeptSome ==
    /\ main = "filtered"
    /\ images # <<>>
    /\ Len(images) < Len(RemoveDuplicates(listed))

\* C24: compiling image or namespace patterns never returns an error, runPush
\* never fails with "invalid include/exclude patterns", and a pattern that
\* does not compile becomes a prefix matcher of the (trimmed) pattern text.
PatternsNeverFail ==
    /\ ret # "invalid include/exclude patterns"
    /\ \A ps \in {opts.IncludePatterns, opts.ExcludePatterns} :
          /\ compileMatchers(ps).err = "nil"
          /\ \A k \in 1..Len(ps) :
                (TrimSpace(ps[k]) # <<>> /\ ~regexpCompiles(TrimSpace(ps[k]))) =>
                    /\ compileMatchers(<<ps[k]>>).matchers
                          = <<[isRegex |-> FALSE, prefix |-> TrimSpace(ps[k]), re |-> <<>>]>>
                    /\ \A item \in Range(listed) :
                          MatchesAny(item, compileMatchers(<<ps[k]>>).matchers)
                             <=> HasPrefix(item, TrimSpace(ps[k]))
    /\ \A ps \in {opts.IncludeNamespaces, opts.ExcludeNamespaces} :
          compileNamespaceMatchers(ps).err = "nil"
    /\ FilterImages(listed, opts.IncludePatterns, opts.ExcludePatterns).err = "nil"

\* C24 witness: the include pattern "[a" does not compile; the filter has run
\* and kept exactly the item that starts with "[a"
PrefixFallbackUsed ==
    /\ main = "filtered"
    /\ opts.IncludePatterns = << <<"[","a">> >>
    /\ opts.ExcludePatterns = <<>>
    /\ Len(listed) >= 2
    /\ images = << <<"[","a","b">> >>

\* the position of the first occurrence of x in L
FirstIndex(L, x) == CHOOSE k \in 1..Len(L) : L[k] = x /\ \A m \in 1..(k - 1) : L[m] # x

\* C25: RemoveDuplicates returns every distinct item of its input exactly
\* once, in the order of the first occurrences ([b, a, b] gives [b, a]); the
\* list runPush translates has no duplicates, and no two jobs built from it
\* have the same source image.
DeduplicatedFirstSeen ==
    /\ RemoveDuplicates(<< <<"b">>, <<"a">>, <<"b">> >>) = << <<"b">>, <<"a">> >>
    /\ \A U \in {RemoveDuplicates(listed)} :
          /\ Range(U) = Range(listed)
          /\ \A k, m \in 1..Len(U) :
                k < m => U[k] # U[m] /\ FirstIndex(listed, U[k]) < FirstIndex(listed, U[m])
          /\ main = "filter" => images = U
    /\ main \in {"filter", "filtered"} =>
          \A k, m \in 1..Len(images) : k # m => images[k] # images[m]
    /\ main = "filtered" =>
          \A b \in {BuildJobs(images, opts.RepositoryPrefix)} :
              \A k, m \in 1..Len(b) : k # m => b[k].Image # b[m].Image

\* C25 witness: the listing held an item twice, not next to each other; the
\* deduplicated list has been filtered and jobs can be built from it
DuplicateDropped ==
    /\ main = "filtered"
    /\ \E k, m \in 1..Len(listed) : m > k + 1 /\ listed[k] = listed[m]
    /\ Len(images) >= 2

HasSuffix(str, suffix) ==
    /\ Len(suffix) <= Len(str)
    /\ SubSeq(str, Len(str) - Len(suffix) + 1, Len(str)) = suffix

\* the tag the resolution rule gives a reference composed of the pieces r
ExpectedTag(r) ==
    IF Len(r.tag) > 1 THEN Tail(r.tag)
    ELSE IF r.digest # <<>>
         THEN Str_sha \o SubSeq(r.digest, Len(Str_sha256) + 1,
                                IF Len(r.digest) > Len(Str_sha256) + 12
                                THEN Len(Str_sha256) + 12 ELSE Len(r.digest))
         ELSE Str_latest

\* the pieces of the references that make up the image list of the state
PartsOf(k) == {Parts(n - 1) : n \in {m \in 1..RefCount : References[m] = images[k]}}

\* the would-push lines the dry-run loop has printed for image k
WouldPush(k) ==
    {stdout[a].text : a \in {b \in 1..Len(stdout) :
                                stdout[b].i = k /\ stdout[b].line = "DRY RUN: Would push"}}

\* C26: an explicit tag wins, also over a digest; without one the tag is
\* "sha-" and the first 12 characters of the captured digest; without either
\* it is "latest". A digest-only reference with 64 hex characters gets
\* sha-<first 12>.
TagResolution ==
    \A k \in 1..Len(images) : \A r \in PartsOf(k) :
        /\ \A conv \in {ConvertImageName(ecrClient, images[k], opts.RepositoryPrefix)} :
              ~conv.err =>
                  /\ conv.target = GetRegistryURL(ecrClient) \o <<"/">> \o conv.repo
                                      \o <<":">> \o ExpectedTag(r)
                  /\ (r.tag = <<>> /\ r.digest = Str_sha256 \o Str_hex64) =>
                        HasSuffix(conv.target,
                                  <<":">> \o Str_sha \o SubSeq(Str_hex64, 1, 12))
        /\ \A text \in WouldPush(k) : HasSuffix(text, <<":">> \o ExpectedTag(r))

\* C26 witness: a digest-only reference was printed with its sha- tag, and
\* the same repository with tag v1 and a digest was printed with tag v1
TagBeatsDigest ==
    /\ Len(images) = 2
    /\ images[1] = <<"n",".","x">> \o Str_sha256 \o Str_hex64
    /\ images[2] = <<"n",".","x",":","v","1">> \o Str_sha256 \o Str_hex64
    /\ \E text \in WouldPush(1) :
          HasSuffix(text, <<"/","n",".","x",":">> \o Str_sha \o SubSeq(Str_hex64, 1, 12))
    /\ \E text \in WouldPush(2) : HasSuffix(text, <<"/","n",".","x",":","v","1">>)

\* the naming grammar read character by character; st is "start" at the
\* beginning of a segment, "alnum" in a run of [a-z0-9], "sep" after one of . _ -
RECURSIVE GrammarFrom(_, _, _)
GrammarFrom(name, k, st) ==
    IF k > Len(name) THEN st = "alnum"
    ELSE IF IsAlnum(name[k]) THEN GrammarFrom(name, k + 1, "alnum")
    ELSE IF st = "alnum" /\ IsSeparator(name[k]) THEN GrammarFrom(name, k + 1, "sep")
    ELSE IF st = "alnum" /\ name[k] = "/" THEN GrammarFrom(name, k + 1, "start")
    ELSE FALSE

MatchesGrammar(name) == GrammarFrom(name, 1, "start")

\* prefix + "/" + the lowercased repository path with ':' and '@' replaced by '-'
ExpectedName(r, prefix) ==
    prefix \o <<"/">> \o ReplaceAll(ReplaceAll(ToLower(r.path), <<":">>, <<"-">>),
                                    <<"@">>, <<"-">>)

\* the images of the list, in order, whose expected name matches the grammar
RECURSIVE Translatable(_, _)
Translatable(k, prefix) ==
    IF k > Len(images) THEN <<>>
    ELSE (IF \E r \in PartsOf(k) : MatchesGrammar(ExpectedName(r, prefix))
          THEN <<images[k]>> ELSE <<>>)
         \o Translatable(k + 1, prefix)

\* C27: a translation that succeeds returns the repository name prefix/path
\* (path lowercased, ':' and '@' replaced by '-'), which matches the grammar,
\* and the target registryURL/name:tag; a name that violates the grammar gives
\* an error with empty results, and only that image is dropped.
NameAndTarget ==
    /\ \A k \in 1..Len(images) : \A r \in PartsOf(k) :
          \A conv \in {ConvertImageName(ecrClient, images[k], opts.RepositoryPrefix)} :
              /\ conv.err <=> ~MatchesGrammar(ExpectedName(r, opts.RepositoryPrefix))
              /\ ~conv.err =>
                    /\ conv.repo = ExpectedName(r, opts.RepositoryPrefix)
                    /\ MatchesGrammar(conv.repo)
                    /\ conv.target = GetRegistryURL(ecrClient) \o <<"/">> \o conv.repo
                                        \o <<":">> \o ExpectedTag(r)
                    /\ stdout # <<>> => \A text \in WouldPush(k) : text = conv.target
              /\ conv.err => conv.target = <<>> /\ conv.repo = <<>> /\ WouldPush(k) = {}
    /\ \A b \in {BuildJobs(images, opts.RepositoryPrefix)} :
          [k \in 1..Len(b) |-> b[k].Image] \o <<>> = Translatable(1, opts.RepositoryPrefix)
    /\ main = "done" =>
          /\ Len(stdout) = 2 * Len(images)
          /\ \A k \in 1..Len(images) :
                (WouldPush(k) = {}) <=>
                    \E a \in 1..Len(stdout) :
                        stdout[a].i = k /\ stdout[a].line = "Failed to convert image name"

\* C27 witness: a path with ':' and '@' was translated to b-1/c-d, the next
\* image's name violated the grammar, and the loop went on to its end
InvalidNameDropped ==
    /\ main = "done"
    /\ \E a, b \in 1..Len(stdout) :
          /\ a < b
          /\ stdout[a].line = "DRY RUN: Would push"
          /\ Contains(stdout[a].text, <<"/","a","/","b","-","1","/","c","-","d",":">>)
          /\ stdout[b].line = "Failed to convert image name"

\* C31: the result channel is closed only when every worker has returned;
\* the job channel is closed by the producer, once, also after a
\* cancellation; no goroutine that may still send or close finds its channel
\* closed.
ChannelsClosedSafely ==
    /\ resultChanClosed => \A w \in DOMAIN workers : workers[w].pc = "done"
    /\ resultChanClosed <=> closer = "done"
    /\ jobChanClosed <=> producer.pc = "done"
    /\ producer.pc \in {"send", "close"} => ~jobChanClosed
    /\ \A w \in DOMAIN workers : workers[w].pc = "send" => ~resultChanClosed

\* C31 witness: the producer stopped on cancellation before it had sent
\* every job; both channels are closed and a worker had executed a job
ClosedAfterCancel ==
    /\ ctxDone
    /\ producer.pc = "done" /\ producer.i <= Len(jobs)
    /\ jobChanClosed /\ resultChanClosed
    /\ DOMAIN workers # {}
    /\ \E j \in DOMAIN log : log[j] # <<>>

\* C39: both channels have the capacity len(jobs): the producer's send and a
\* worker's result send always find room, and never more than len(jobs)
\* results or jobs are buffered.
SendsNeverBlock ==
    /\ main # "build" => JobChanCap = Len(jobs) /\ ResultChanCap = Len(jobs)
    /\ Len(jobChan) <= Len(jobs)
    /\ Len(resultChan) <= Len(jobs)
    /\ producer.pc = "send" => Len(jobChan) < JobChanCap
    /\ \A w \in DOMAIN workers : workers[w].pc = "send" => Len(resultChan) < ResultChanCap

\* C39 witness: every result is buffered at once, the aggregator has taken none
ResultBufferFull ==
    /\ Len(jobs) = 2
    /\ Len(resultChan) = Len(jobs)
    /\ main = "collect"

\* the state of a run in which no job was executed and none reported
NothingExecuted ==
    /\ DOMAIN workers = {}
    /\ \A j \in DOMAIN log : log[j] = <<>>
    /\ inflight = {}
    /\ resultChan = <<>>
    /\ successCount = 0 /\ skippedCount = 0 /\ errorCount = 0
    /\ repos = {} /\ tags = {}

\* C32: with MaxConcurrent <= 0 no worker is started and no job is executed;
\* the run still ends, with the summary 0 successful, 0 skipped, 0 failed and
\* the return value nil.
ZeroWorkersTerminate ==
    /\ [](opts.MaxConcurrent <= 0 =>
             /\ NothingExecuted
             /\ main = "done" => ret = "nil")
    /\ (opts.MaxConcurrent <= 0) ~> (main = "done" /\ ret = "nil" /\ NothingExecuted)

\* C32 witness: two jobs were built and queued, no worker exists, the run is over
ZeroWorkersRunOver ==
    /\ opts.MaxConcurrent <= 0
    /\ Len(jobs) = 2
    /\ Len(jobChan) = 2 /\ jobChanClosed
    /\ main = "done" /\ ret = "nil"
    /\ NothingExecuted

NotFoundResponses == {"RepositoryNotFoundException", "ImageNotFoundException"}

\* C35: ImageTagExists answers (false, nil) for repository-not-found and for
\* image-not-found; with skip-existing a job that got such an answer goes on
\* to the mirror copy and is neither skipped nor failed by the query; a job
\* fails at the query only when the query returned another error.
NotFoundMeansAbsent ==
    /\ \A resp \in NotFoundResponses :
          /\ ImageTagExists(resp) = [exists |-> FALSE, err |-> "nil"]
          /\ AfterTagCheck(ImageTagExists(resp)).pc = "mirror"
    /\ ImageTagExists("error").err # "nil"
    /\ \A j \in DOMAIN log :
          /\ (\E resp \in NotFoundResponses : LogHas(j, "tag", resp)) =>
                /\ opts.SkipExisting
                /\ \/ Called(j, "mirror")
                   \/ \E w \in DOMAIN workers : workers[w].job = j /\ workers[w].pc = "mirror"
                /\ \A r \in ResultsOf(j) : ~r.Skipped /\ r.Error # "tag"
          /\ \A r \in ResultsOf(j) : r.Error = "tag" => LogHas(j, "tag", "error")

\* C35 witness: with skip-existing the registry answered image-not-found, the
\* job was mirrored and reported as a success
AbsentTagMirrored ==
    \E j \in DOMAIN log :
        /\ opts.SkipExisting
        /\ LogHas(j, "tag", "ImageNotFoundException")
        /\ LogHas(j, "mirror", "copied")
        /\ Len(received[j]) = 1
        /\ received[j][1].Error = "nil" /\ ~received[j][1].Skipped

\* a reference composed of the pieces r, without its tag and digest
BodyOf(r) == r.registry \o r.path

\* the first '/'-separated segment of a reference body
FirstSegment(body) ==
    IF Index(body, <<"/">>) = -1 THEN body ELSE Slice(body, 0, Index(body, <<"/">>))

\* the reference has more than one segment and the first looks like a host
HasRegistry(body) ==
    /\ Index(body, <<"/">>) # -1
    /\ \/ Contains(FirstSegment(body), <<".">>)
       \/ Contains(FirstSegment(body), <<":">>)
       \/ FirstSegment(body) = Str_localhost

\* the repository path the rule leaves of a reference body
PathOf(body) ==
    IF HasRegistry(body) THEN Slice(body, Index(body, <<"/">>) + 1, Len(body)) ELSE body

\* C33: the first segment is dropped exactly when the reference has more than
\* one segment and the first contains '.' or ':' or is "localhost"; a
\* single-segment reference keeps its name: nginx:1.25 gives repository
\* krane/nginx and tag 1.25.
RegistryDropped ==
    /\ ConvertImageName(ecrClient, Img_nginx125, Str_krane)
          = [target |-> GetRegistryURL(ecrClient) \o <<"/">> \o Str_krane
                           \o <<"/","n","g","i","n","x",":","1",".","2","5">>,
             repo |-> Str_krane \o <<"/","n","g","i","n","x">>,
             err |-> FALSE]
    /\ \A k \in 1..Len(images) : \A r \in PartsOf(k) :
          /\ HasRegistry(BodyOf(r)) <=> r.registry # <<>>
          /\ \A conv \in {ConvertImageName(ecrClient, images[k], opts.RepositoryPrefix)} :
                ~conv.err =>
                    /\ conv.repo = opts.RepositoryPrefix \o <<"/">> \o
                          ReplaceAll(ReplaceAll(ToLower(PathOf(BodyOf(r))), <<":">>, <<"-">>),
                                     <<"@">>, <<"-">>)
                    /\ \A text \in WouldPush(k) :
                          Contains(text, <<"/">> \o conv.repo \o <<":">>)

\* C33 witness: a single-segment reference with '.' and ':' kept its name, and
\* r.io/n.x lost its registry: both were printed with repository krane/n.x
RegistryDroppedNameKept ==
    /\ Len(images) = 2
    /\ ~Contains(images[1], <<"/">>)
    /\ HasPrefix(images[1], <<"n",".","x",":">>)
    /\ images[2] = <<"r",".","i","o","/","n",".","x">>
    /\ \A k \in 1..2 : \E text \in WouldPush(k) :
          Contains(text, <<"/","k","r","a","n","e","/","n",".","x",":">>)

\* the tag of a translation: what follows registryURL/repositoryName: in its target
TranslatedTag(conv) ==
    SubSeq(conv.target, Len(GetRegistryURL(ecrClient)) + Len(conv.repo) + 3,
           Len(conv.target))

\* C34: the tag of every successful translation is not empty and has no ':',
\* so the tag processImageJob extracts after the last ':' of the target is the
\* translated tag (and the tag query of skip-existing is made for every job).
TagRoundTrips ==
    \A k \in 1..Len(images) :
        \A conv \in {ConvertImageName(ecrClient, images[k], opts.RepositoryPrefix)} :
            \A text \in WouldPush(k) :
                /\ ~conv.err /\ text = conv.target
                /\ TranslatedTag(conv) # <<>>
                /\ ~Contains(TranslatedTag(conv), <<":">>)
                /\ TagOf(text) = TranslatedTag(conv)
                /\ AfterCreate("nil", TRUE, TagOf(text)).pc = "tag"

\* C36: deduplication and filtering commute, so runPush's order
\* (deduplicate, then filter) gives the list that filtering first and
\* deduplicating afterwards gives.
DedupFilterCommute ==
    /\ FilterImages(RemoveDuplicates(listed), opts.IncludePatterns, opts.ExcludePatterns).result
          = RemoveDuplicates(
               FilterImages(listed, opts.IncludePatterns, opts.ExcludePatterns).result)
    /\ main = "filtered" =>
          images = RemoveDuplicates(
                      FilterImages(listed, opts.IncludePatterns, opts.ExcludePatterns).result)

\* C36 witness: the listing held a duplicate, the filter dropped an item and
\* kept another
DedupAndFilterBothActed ==
    /\ main = "filtered"
    /\ Len(RemoveDuplicates(listed)) < Len(listed)
    /\ Len(images) < Len(RemoveDuplicates(listed))
    /\ images # <<>>

\* C37: patterns are trimmed and blank patterns ignored: the matchers are
\* those of the trimmed non-blank patterns, an include list of blank patterns
\* only acts as an empty one, a blank exclude pattern excludes nothing.
BlankPatternsIgnored ==
    /\ \A ps \in {opts.IncludePatterns, opts.ExcludePatterns} :
          /\ compileMatchers(ps).matchers = compileMatchers(Effective(ps)).matchers
          /\ Len(compileMatchers(ps).matchers) = Len(Effective(ps))
    /\ \A L \in FilterInputs :
          /\ Effective(opts.IncludePatterns) = <<>> =>
                FilterImages(L, opts.IncludePatterns, opts.ExcludePatterns).result
                   = FilterImages(L, <<>>, opts.ExcludePatterns).result
          /\ Effective(opts.ExcludePatterns) = <<>> =>
                FilterImages(L, opts.IncludePatterns, opts.ExcludePatterns).result
                   = FilterImages(L, opts.IncludePatterns, <<>>).result
    /\ (/\ main = "filtered"
        /\ Effective(opts.IncludePatterns) = <<>>
        /\ Effective(opts.ExcludePatterns) = <<>>) => images = RemoveDuplicates(listed)

\* C37 witness: the include list and the exclude list hold one blank pattern
\* each, and every listed image was kept
BlankListsKeepAll ==
    /\ main = "filtered"
    /\ opts.IncludePatterns = << <<" ">> >>
    /\ opts.ExcludePatterns = << <<" ">> >>
    /\ Len(images) >= 2
    /\ images = RemoveDuplicates(listed)

\* the namespace passes the namespace include/exclude filters
NamespacePasses(ns) ==
    /\ \/ Effective(opts.IncludeNamespaces) = <<>>
       \/ \E k \in 1..Len(Effective(opts.IncludeNamespaces)) :
             PatternMatch(ns, Effective(opts.IncludeNamespaces)[k])
    /\ ~\E k \in 1..Len(Effective(opts.ExcludeNamespaces)) :
           PatternMatch(ns, Effective(opts.ExcludeNamespaces)[k])

\* the images of the pods from the i-th on: of the pods in opts.Namespace
\* (only = TRUE), or of the pods whose namespace passes the filters
RECURSIVE ListingOf(_, _)
ListingOf(i, only) ==
    IF i > Len(pods) THEN <<>>
    ELSE (IF \/ only /\ pods[i].Namespace = opts.Namespace
             \/ ~only /\ NamespacePasses(pods[i].Namespace)
          THEN pods[i].Containers \o pods[i].InitContainers ELSE <<>>)
         \o ListingOf(i + 1, only)

\* C38: a blank namespace lists all namespaces whatever the flag; the
\* namespace filters are applied when all namespaces are listed; with a
\* non-blank namespace and the flag unset only that namespace is listed and
\* the filters are ignored.
NamespaceScope ==
    main \in {"dedup", "filter", "filtered"} =>
        /\ TrimSpace(opts.Namespace) = <<>> => listed = ListingOf(1, FALSE)
        /\ opts.AllNamespaces => listed = ListingOf(1, FALSE)
        /\ (TrimSpace(opts.Namespace) # <<>> /\ ~opts.AllNamespaces) =>
              listed = ListingOf(1, TRUE)

\* C38 witness: blank namespace, flag unset, exclude filter b: the pod of
\* namespace b was left out and the pod of namespace [a was listed
BlankNamespaceFiltered ==
    /\ main = "dedup"
    /\ opts.Namespace = << " " >>
    /\ ~opts.AllNamespaces
    /\ opts.ExcludeNamespaces = << <<"b">> >>
    /\ Len(pods) = 2 /\ pods[1].Namespace = <<"b">>
    /\ listed = pods[2].Containers \o pods[2].InitContainers
    /\ listed # <<>>
====
